---------------------------- MODULE Spec2Model ----------------------------
(***************************************************************************)
(* Model of the upload orchestrator of upload_to_album.py (upload_task)    *)
(* and upload_folder.py (upload_folder_task): discovery order, the dedup   *)
(* checks against the local history and the remote index, the filename     *)
(* sanitizer with its temp file, the retry loop, the shared counters, the  *)
(* display-slot pool and the history store with its periodic and final     *)
(* save.  The two files share process_file and save_progress line for      *)
(* line; the model follows upload_to_album.py and notes upload_folder.py   *)
(* where it differs.                                                       *)
(*                                                                         *)
(* A step of a worker is one critical section (with lock:) or one system   *)
(* call of process_file; statements that touch only the worker's locals    *)
(* are folded into the step that follows them.                             *)
(***************************************************************************)
EXTENDS Integers, Sequences, FiniteSets, TLC

(***************************************************************************)
(* Bounds of the model.                                                    *)
(***************************************************************************)
MaxFiles == 3
MaxRetries == 2
MaxThreads == 2
MaxRuns == 2
MaxLen == 3

(***************************************************************************)
(* Program constant: "if processed_count % 20 == 0".                       *)
(***************************************************************************)
SaveEvery == 20

(***************************************************************************)
(* File names are sequences of code points.  97 a, 98 b, 46 '.', 106 j,    *)
(* 112 p, 120 x; 128512 and 128513 are two emoji above U+FFFF.             *)
(***************************************************************************)
SafeSuffix == <<95, 115, 97, 102, 101>>

NameA == <<97, 46, 106>>
NameAE1 == <<97, 128512, 46, 106>>
NameAE2 == <<97, 128513, 46, 106>>
NameASafe == <<97>> \o SafeSuffix \o <<46, 106>>
NameX == <<120, 46, 106>>
PadName(i) == <<112, 47 + i, 46, 106>>

\* Mutant: the comparison is strict, so U+FFFF itself is dropped.
IsBMPStrict(c) == c < 65535

\* clean_filename: keep the characters c with c <= U+FFFF, in order.
IsBMP(c) == c <= 65535
clean_filename(text) == SelectSeq(text, IsBMP)

\* os.path.splitext on a bare file name: split at the last dot, unless the
\* name has no dot or only leading dots before it.
LastDot(name) ==
    LET dots == {i \in 1..Len(name) : name[i] = 46}
    IN IF dots = {} THEN 0 ELSE CHOOSE i \in dots : \A k \in dots : k <= i

SplitAt(name) ==
    LET d == LastDot(name)
    IN IF d > 0 /\ \E k \in 1..(d - 1) : name[k] # 46 THEN d ELSE Len(name) + 1

splitext(name) ==
    LET d == SplitAt(name)
    IN <<SubSeq(name, 1, d - 1), SubSeq(name, d, Len(name))>>

\* f"{root_name}_safe{ext}"
safe_name(name) == splitext(name)[1] \o SafeSuffix \o splitext(name)[2]

(***************************************************************************)
(* The source directory.  A path is a directory and a file name; a file    *)
(* has a size and a content (the number of the file it was created as).    *)
(* Core lists the files a scenario may hold, in os.walk order; Pad(i) are  *)
(* small files uploaded by an earlier run.                                 *)
(***************************************************************************)
Path(d, n) == [dir |-> d, name |-> n]
NoPath == Path(0, <<>>)

Core ==
    << [path |-> Path(1, NameA),     size |-> 300],
       [path |-> Path(1, NameAE1),   size |-> 100],
       [path |-> Path(1, NameAE2),   size |-> 200],
       [path |-> Path(1, NameASafe), size |-> 400],
       [path |-> Path(2, NameA),     size |-> 50] >>

PadCount == SaveEvery - 2
PadFile(i) == [path |-> Path(1, PadName(i)), size |-> i]
PadNames(k) == {PadName(i) : i \in 1..k}

Universe == [i \in 1..PadCount |-> PadFile(i)] \o Core
CoreIds == (PadCount + 1)..Len(Universe)
PadIds == 1..PadCount

\* Inode of a copy made from the file created as content c.
CopyInode(c) == Len(Universe) + c
SizeOf(c) == Universe[c].size

(***************************************************************************)
(* File discovery: os.walk order, then file_tasks.sort(key=getsize),       *)
(* which is stable.                                                        *)
(***************************************************************************)
Walk(files, content) ==
    LET present(f) == f.path \in DOMAIN files
        listed == SelectSeq(Universe, present)
    IN [i \in 1..Len(listed) |->
          [path |-> listed[i].path, size |-> SizeOf(content[files[listed[i].path]])]]

RECURSIVE InsertBySize(_, _)
InsertBySize(sorted, f) ==
    IF sorted = <<>> THEN <<f>>
    ELSE IF sorted[Len(sorted)].size <= f.size THEN Append(sorted, f)
    ELSE Append(InsertBySize(SubSeq(sorted, 1, Len(sorted) - 1), f), sorted[Len(sorted)])

RECURSIVE SortBySize(_)
SortBySize(seq) ==
    IF seq = <<>> THEN <<>>
    ELSE InsertBySize(SortBySize(SubSeq(seq, 1, Len(seq) - 1)), seq[Len(seq)])

\* Mutant: the tasks are left in os.walk order.
DiscoverUnsorted(files, content) ==
    [i \in 1..Len(Walk(files, content)) |-> Walk(files, content)[i].path]

Discover(files, content) ==
    LET sorted == SortBySize(Walk(files, content))
    IN [i \in 1..Len(sorted) |-> sorted[i].path]

(***************************************************************************)
(* The history document: album name -> names.  The file is absent, holds   *)
(* a document, or holds text json.load rejects.                            *)
(***************************************************************************)
Albums == {"A", "B"}
album_name == "A"
EmptyDoc == [a \in {} |-> {}]
Absent == [state |-> "absent", doc |-> EmptyDoc]
Corrupt == [state |-> "corrupt", doc |-> EmptyDoc]
Doc(d) == [state |-> "ok", doc |-> d]

\* load_history: {} when the file is absent or unreadable.
load_history(file) == IF file.state = "ok" THEN file.doc ELSE EmptyDoc

\* save_history: json.dump of the whole document.
save_history(history) == Doc(history)

\* Mutant: the album's entry is not read from the loaded document.
get_album_empty(history) == {}

\* full_history.get(album_name, []) turned into the dict-as-set album_history.
get_album(history) == IF album_name \in DOMAIN history THEN history[album_name] ELSE {}

\* current_full[album_name] = list(album_history.keys())
set_album(history, names) ==
    [a \in DOMAIN history \cup {album_name} |->
        IF a = album_name THEN names ELSE history[a]]

(***************************************************************************)
(* State.                                                                  *)
(***************************************************************************)
VARIABLES
    local_check,      \* parameter of the run
    num_threads,      \* parameter of the run
    max_retries,      \* parameter of the run
    fs,               \* the source directory: path -> inode
    data,             \* inode -> content
    history_file,     \* the history file on disk
    remote,           \* names in the remote album (the service's state)
    existing_names,   \* the remote index fetched at start
    album_history,    \* names recorded for album_name, in memory
    file_tasks,       \* discovered tasks, ascending size
    next_task,        \* index of the next task to dispatch
    upload_count, skip_count, fail_count, processed_count,
    slot_queue,       \* free display slots
    wk,               \* per worker: position in process_file and its locals
    current_full,     \* save_progress: the document the save in progress has read
    main_pc,          \* "start", "process", "final_write", then "summary"
    run,              \* number of the current run
    outcome,          \* per task: terminal outcome and recorded name
    calls,            \* per task: calls of api.upload_1file
    periodic_saves,   \* periodic calls of save_progress in this run
    at_start,         \* album_history and existing_names as they were at start
    prev              \* outcomes of the previous run, per path

\* State of the checks of single functions, apart from the run.
VARIABLES
    cleanings,        \* a name, followed by the results of clean_filename on it
    entry_point,      \* the function whose directory scan is under check
    listed,           \* the names os.walk returned
    folder,           \* the names on disk
    to_scan,          \* the names the scan loop has not visited
    scan_tasks,       \* file_tasks of the scan
    remove_failed,    \* the names whose os.remove raised
    targets,          \* upload_album: the configuration state of each target
    batch_pc,         \* upload_album: "idle", "loop" or "done"
    batch_i,          \* upload_album: the targets handled so far
    batch_calls,      \* upload_album: the targets upload_task was called for
    summary_report,   \* upload_album: the rows collected
    walked,           \* the sort step: file_tasks as os.walk left it
    sizes,            \* the sort step: what os.path.getsize gives for each file
    sort_pc,          \* the sort step: "idle", "sort", "sorted", "raised", "process"
    sort_tasks,       \* the sort step: file_tasks
    printer_lock,     \* MultiLinePrinter: the caller holding self.lock, or 0
    lines,            \* MultiLinePrinter: self.lines
    lines_version,    \* MultiLinePrinter: the assignments to self.lines so far
    terminal,         \* MultiLinePrinter: the writes to sys.stdout, in order
    callers,          \* MultiLinePrinter: per calling thread, its call and position
    cursor,           \* MultiLinePrinter: the screen row the cursor is on
    reserved,         \* MultiLinePrinter: the first row of the block __init__ reserved
    clock,            \* progress callback: time.time(), in tenths of a second
    total_size,       \* progress callback: the size the upload reports
    attempt_no,       \* progress callback: the attempt the callback was made for
    start_time,       \* progress callback: start_time of the closure
    last_print_time,  \* progress callback: last_print_time of the closure
    invocations,      \* progress callback: uploaded_size of each invocation of this attempt
    renders,          \* progress callback: the calls of printer.update, in order
    threads,          \* locks: per worker thread, the path of its task and its place on it
    state_lock,       \* locks: the thread inside `with lock`, or 0
    print_lock,       \* locks: the thread inside the printer's `with self.lock`, or 0
    slots_free,       \* locks: the number of slots in slot_queue
    queued            \* locks: the tasks no thread has started

params == <<local_check, num_threads, max_retries>>
scanning == <<entry_point, listed, folder, to_scan, scan_tasks, remove_failed>>
batch == <<targets, batch_pc, batch_i, batch_calls, summary_report>>
sorting == <<walked, sizes, sort_pc, sort_tasks>>
printing == <<printer_lock, lines, lines_version, terminal, callers, cursor, reserved>>
progress == <<clock, total_size, attempt_no, start_time, last_print_time,
              invocations, renders>>
locking == <<threads, state_lock, print_lock, slots_free, queued>>
aside == <<cleanings, scanning, batch, sorting, printing, progress, locking>>
disk == <<fs, data>>
counters == <<upload_count, skip_count, fail_count, processed_count>>
ghosts == <<outcome, calls, periodic_saves, at_start, prev>>
vars == <<params, disk, history_file, remote, existing_names, album_history,
          file_tasks, next_task, counters, slot_queue, wk, current_full, main_pc,
          run, ghosts, aside>>

Workers == 1..num_threads
total_files == Len(file_tasks)

\* sleeps counts the worker's time.sleep(2) calls of the retry loop;
\* is_existing is the flag of the result of its successful upload call.
Idle == [pc |-> "idle", task |-> 0, cleaned_name |-> <<>>, temp_path |-> NoPath,
         upload_path |-> NoPath, attempt |-> 0, slot |-> 0, sleeps |-> 0,
         is_existing |-> FALSE]

Pending == [kind |-> "Pending", name |-> <<>>]
Outcome(k, n) == [kind |-> k, name |-> n]

file_path(w) == file_tasks[wk[w].task]
file(w) == file_path(w).name

(***************************************************************************)
(* Scenarios.  A short one holds up to MaxFiles of the Core files.  A long *)
(* one holds them after PadCount smaller files that an earlier run         *)
(* uploaded and recorded, so that processed_count reaches SaveEvery.  The  *)
(* history file is absent, unreadable, or holds album B and possibly album *)
(* A; the remote album holds what the earlier run uploaded and possibly    *)
(* a.j.                                                                    *)
(***************************************************************************)
CoreSets == {S \in SUBSET CoreIds : Cardinality(S) <= MaxFiles}
Earlier(pad, withA) == PadNames(pad) \cup (IF withA THEN {NameA} ELSE {})
DocB == Doc([a \in {"B"} |-> {NameX}])
DocAB(names) == Doc([a \in Albums |-> IF a = "B" THEN {NameX} ELSE names])

\* With local_check off the history file is not looked at: two starts do.
ShortStarts(lc) ==
    { [hist |-> Absent, rem |-> {NameA}],
      [hist |-> DocAB({NameA}), rem |-> {}] }
    \cup
    (IF lc THEN {[hist |-> Corrupt, rem |-> {}]} ELSE {})

LongStarts ==
    { [hist |-> DocAB(Earlier(PadCount, withA)), rem |-> PadNames(PadCount)] :
        withA \in BOOLEAN }

Scenario(pad, files, lc, nt, mr, start) ==
    [pad |-> pad, files |-> files, lc |-> lc, nt |-> nt, mr |-> mr, start |-> start]

ShortScenarios ==
    UNION { { Scenario(0, S, lc, nt, mr, st) :
                S \in CoreSets, nt \in 1..MaxThreads, mr \in 0..MaxRetries,
                st \in ShortStarts(lc) } : lc \in BOOLEAN }

LongScenarios ==
    { Scenario(PadCount, S, TRUE, nt, 1, st) :
        S \in {T \in CoreSets : Cardinality(T) = 2}, nt \in 1..MaxThreads,
        st \in LongStarts }

Scenarios == ShortScenarios \cup LongScenarios

\* No single function is under check during a run.
ScanIdle ==
    /\ entry_point = "none" /\ listed = {} /\ folder = {} /\ to_scan = {}
    /\ scan_tasks = <<>> /\ remove_failed = {}
BatchIdle ==
    /\ targets = <<>> /\ batch_pc = "idle" /\ batch_i = 0
    /\ batch_calls = <<>> /\ summary_report = <<>>
SortIdle ==
    /\ walked = <<>> /\ sizes = <<>> /\ sort_pc = "idle" /\ sort_tasks = <<>>
PrintIdle ==
    /\ printer_lock = 0 /\ lines = <<>> /\ lines_version = 0
    /\ terminal = <<>> /\ callers = <<>> /\ cursor = 0 /\ reserved = 0
ProgressIdle ==
    /\ clock = 0 /\ total_size = 0 /\ attempt_no = 0 /\ start_time = 0
    /\ last_print_time = 0 /\ invocations = <<>> /\ renders = <<>>
LockingIdle ==
    /\ threads = <<>> /\ state_lock = 0 /\ print_lock = 0 /\ slots_free = 0
    /\ queued = 0
AsideIdle ==
    /\ cleanings = <<>> /\ ScanIdle /\ BatchIdle /\ SortIdle /\ PrintIdle
    /\ ProgressIdle /\ LockingIdle

ProgramInit(sc) ==
    /\ local_check = sc.lc
    /\ num_threads = sc.nt
    /\ max_retries = sc.mr
    /\ fs = [p \in {Universe[i].path : i \in (1..sc.pad) \cup sc.files} |->
               CHOOSE i \in (1..sc.pad) \cup sc.files : Universe[i].path = p]
    /\ data = [i \in (1..sc.pad) \cup sc.files |-> i]
    /\ history_file = sc.start.hist
    /\ remote = sc.start.rem
    /\ existing_names = {} /\ album_history = {}
    /\ at_start = [album_history |-> {}, existing_names |-> {}]
    /\ file_tasks = <<>> /\ next_task = 1
    /\ upload_count = 0 /\ skip_count = 0 /\ fail_count = 0 /\ processed_count = 0
    /\ slot_queue = <<>>
    /\ wk = [w \in 1..sc.nt |-> Idle]
    /\ current_full = EmptyDoc
    /\ main_pc = "start"
    /\ run = 1
    /\ outcome = <<>> /\ calls = <<>> /\ periodic_saves = 0
    /\ prev = [p \in {} |-> Pending]

InitOf(sc) == ProgramInit(sc) /\ AsideIdle

Init == \E sc \in Scenarios : InitOf(sc)

(***************************************************************************)
(* upload_task up to "Process files": load the history, fetch the remote   *)
(* index, discover and sort the files, reset the counters, fill the slot   *)
(* queue.                                                                  *)
(***************************************************************************)
\* Mutant: range(num_threads - 1).
slot_pool_one_short == [i \in 1..(num_threads - 1) |-> i - 1]

\* for i in range(num_threads): slot_queue.put(i)
slot_pool == [i \in 1..num_threads |-> i - 1]

Start ==
    /\ main_pc = "start"
    /\ album_history' = (IF local_check THEN get_album(load_history(history_file)) ELSE {})
    /\ existing_names' = remote
    /\ at_start' = [album_history |-> album_history', existing_names |-> existing_names']
    /\ file_tasks' = Discover(fs, data)
    /\ next_task' = 1
    /\ upload_count' = 0 /\ skip_count' = 0 /\ fail_count' = 0 /\ processed_count' = 0
    /\ slot_queue' = slot_pool
    /\ wk' = [w \in Workers |-> Idle]
    /\ main_pc' = "process"
    /\ outcome' = [t \in 1..Len(file_tasks') |-> Pending]
    /\ calls' = [t \in 1..Len(file_tasks') |-> 0]
    /\ periodic_saves' = 0
    /\ UNCHANGED <<params, aside, disk, history_file, remote, current_full, run, prev>>

(***************************************************************************)
(* save_progress: "current_full = load_history()", then                    *)
(* "current_full[album_name] = list(album_history.keys());                 *)
(* save_history(current_full)".  The read and the write are two accesses   *)
(* to the file; nothing locks the file against another process.            *)
(***************************************************************************)
\* Mutant: the save does not reload the document.
save_progress_load_none(on_disk) == EmptyDoc

save_progress_load(on_disk) == load_history(on_disk)

save_progress_dump(full) == save_history(set_album(full, album_history))

(***************************************************************************)
(* process_file.  A step is one critical section (with lock:) or one       *)
(* system call.  Statements on the worker's locals are folded into the     *)
(* step before them.  A lookup that finds the name is folded with the      *)
(* critical section that follows it: the two sets only grow, so the name   *)
(* is still there.  finally: slot_queue.put(slot_id) is folded into the    *)
(* last step of each path.                                                 *)
(***************************************************************************)
Goto(w, pc) == wk' = [wk EXCEPT ![w].pc = pc]
Finish(w, kind) ==
    outcome' = [outcome EXCEPT ![wk[w].task] = Outcome(kind, wk[w].cleaned_name)]

\* Mutant: the display slot is not put back.
ReleaseKeepsSlot(w) == wk' = [wk EXCEPT ![w] = Idle] /\ UNCHANGED slot_queue

\* finally: slot_queue.put(slot_id)
Release(w) ==
    /\ slot_queue' = Append(slot_queue, wk[w].slot)
    /\ wk' = [wk EXCEPT ![w] = Idle]

\* Mutant: the critical sections do not take the lock.
lock_ignored == TRUE

\* "with lock:".  A critical section is one step, except the periodic save,
\* which holds the lock from its read of the file to its write.
lock_free == \A v \in Workers : wk[v].pc # "periodic_write"

\* A worker takes the next task and a display slot: slot_queue.get().  Idle
\* workers are interchangeable, so the lowest idle one takes the task.
Begin(w) ==
    /\ main_pc = "process"
    /\ wk[w].pc = "idle"
    /\ next_task <= total_files
    /\ slot_queue # <<>>
    /\ \A v \in Workers : v < w => wk[v].pc # "idle"
    /\ wk' = [wk EXCEPT ![w] = [Idle EXCEPT !.pc = "count", !.task = next_task,
                                            !.slot = Head(slot_queue)]]
    /\ next_task' = next_task + 1
    /\ slot_queue' = Tail(slot_queue)
    /\ UNCHANGED <<params, aside, disk, history_file, remote, existing_names, album_history,
                   file_tasks, counters, current_full, main_pc, run, ghosts>>

\* with lock: processed_count += 1; then cleaned_name = clean_filename(file)
Count(w) ==
    /\ wk[w].pc = "count"
    /\ lock_free
    /\ processed_count' = processed_count + 1
    /\ wk' = [wk EXCEPT ![w].pc = "check_local",
                        ![w].cleaned_name = clean_filename(file(w))]
    /\ UNCHANGED <<params, aside, disk, history_file, remote, existing_names, album_history,
                   file_tasks, next_task, upload_count, skip_count, fail_count,
                   slot_queue, current_full, main_pc, run, ghosts>>

\* Check 1: with lock: if local_check and cleaned_name in album_history
in_local_history(name) == local_check /\ name \in album_history

\* if should_skip: with lock: skip_count += 1; return
CheckLocal(w) ==
    /\ wk[w].pc = "check_local"
    /\ lock_free
    /\ IF in_local_history(wk[w].cleaned_name)
       THEN /\ skip_count' = skip_count + 1
            /\ Finish(w, "SkippedLocal")
            /\ Release(w)
       ELSE /\ Goto(w, "check_cloud")
            /\ UNCHANGED <<skip_count, outcome, slot_queue>>
    /\ UNCHANGED <<params, aside, disk, history_file, remote, existing_names, album_history,
                   file_tasks, next_task, upload_count, fail_count, processed_count,
                   current_full, main_pc, run, calls, periodic_saves, at_start, prev>>

\* Mutant: the remote index is not consulted.
in_remote_index_never(name) == FALSE

\* Check 2: with lock: if cleaned_name in existing_names
in_remote_index(name) == name \in existing_names

\* Mutant: a cloud skip does not touch the history.
backfill_none(name) == album_history

\* with lock: if local_check and cleaned_name not in album_history:
\*                album_history[cleaned_name] = True
backfill(name) ==
    IF local_check /\ name \notin album_history
    THEN album_history \cup {name}
    ELSE album_history

\* if should_skip_cloud: backfill the history; skip_count += 1; return.
\* Otherwise upload_path = file_path, and the renaming logic follows when
\* file != cleaned_name.
CheckCloud(w) ==
    /\ wk[w].pc = "check_cloud"
    /\ lock_free
    /\ IF in_remote_index(wk[w].cleaned_name)
       THEN /\ album_history' = backfill(wk[w].cleaned_name)
            /\ skip_count' = skip_count + 1
            /\ Finish(w, "SkippedCloud")
            /\ Release(w)
       ELSE /\ wk' = [wk EXCEPT ![w].upload_path = file_path(w),
                                ![w].pc = IF file(w) # wk[w].cleaned_name
                                          THEN "prepare" ELSE "upload"]
            /\ UNCHANGED <<album_history, skip_count, outcome, slot_queue>>
    /\ UNCHANGED <<params, aside, disk, history_file, remote, existing_names,
                   file_tasks, next_task, upload_count, fail_count, processed_count,
                   current_full, main_pc, run, calls, periodic_saves, at_start, prev>>

\* Check for local collision: os.path.exists(candidate_path)
Prepare(w) ==
    /\ wk[w].pc = "prepare"
    /\ LET candidate == Path(file_path(w).dir, wk[w].cleaned_name)
       IN wk' = [wk EXCEPT ![w] =
                   IF candidate \in DOMAIN fs
                   THEN [@ EXCEPT !.pc = "collision"]
                   ELSE [@ EXCEPT !.pc = "link", !.temp_path = candidate]]
    /\ UNCHANGED <<params, aside, disk, history_file, remote, existing_names, album_history,
                   file_tasks, next_task, counters, slot_queue, current_full, main_pc, run, ghosts>>

\* Collision detected: try the _safe name once: os.path.exists(candidate_path)
Collision(w) ==
    /\ wk[w].pc = "collision"
    /\ LET cleaned_name_safe == safe_name(wk[w].cleaned_name)
           candidate == Path(file_path(w).dir, cleaned_name_safe)
       IN wk' = [wk EXCEPT ![w] =
                   IF candidate \in DOMAIN fs
                   THEN [@ EXCEPT !.pc = "collision_fail"]
                   ELSE [@ EXCEPT !.pc = "link", !.cleaned_name = cleaned_name_safe,
                                  !.temp_path = candidate]]
    /\ UNCHANGED <<params, aside, disk, history_file, remote, existing_names, album_history,
                   file_tasks, next_task, counters, slot_queue, current_full, main_pc, run, ghosts>>

\* Safe filename also exists: with lock: fail_count += 1; return
CollisionFail(w) ==
    /\ wk[w].pc = "collision_fail"
    /\ lock_free
    /\ fail_count' = fail_count + 1
    /\ Finish(w, "FailedCollision")
    /\ Release(w)
    /\ UNCHANGED <<params, aside, disk, history_file, remote, existing_names, album_history,
                   file_tasks, next_task, upload_count, skip_count, processed_count,
                   current_full, main_pc, run, calls, periodic_saves, at_start, prev>>

\* os.link(file_path, temp_path): a second name for the source's inode.  It
\* raises OSError when temp_path exists or the file system refuses links.
Link(w) ==
    /\ wk[w].pc = "link"
    /\ \/ /\ wk[w].temp_path \notin DOMAIN fs
          /\ fs' = [p \in DOMAIN fs \cup {wk[w].temp_path} |->
                      IF p = wk[w].temp_path THEN fs[file_path(w)] ELSE fs[p]]
          /\ wk' = [wk EXCEPT ![w].pc = "upload", ![w].upload_path = wk[w].temp_path]
       \/ /\ Goto(w, "copy")
          /\ UNCHANGED fs
    /\ UNCHANGED <<params, aside, data, history_file, remote, existing_names, album_history,
                   file_tasks, next_task, counters, slot_queue, current_full, main_pc, run, ghosts>>

\* except OSError: shutil.copy2(file_path, temp_path).  It writes the source's
\* content into the file at temp_path, creating the file when it is absent;
\* it raises when both names are the same file, or when the copy fails.
Copy(w) ==
    /\ wk[w].pc = "copy"
    /\ LET src == fs[file_path(w)]
           exists == wk[w].temp_path \in DOMAIN fs
           dst == IF exists THEN fs[wk[w].temp_path] ELSE CopyInode(src)
       IN \/ /\ dst # src
             /\ fs' = [p \in DOMAIN fs \cup {wk[w].temp_path} |->
                         IF p = wk[w].temp_path THEN dst ELSE fs[p]]
             /\ data' = [i \in DOMAIN data \cup {dst} |->
                           IF i = dst THEN data[src] ELSE data[i]]
             /\ wk' = [wk EXCEPT ![w].pc = "upload", ![w].upload_path = wk[w].temp_path]
          \/ /\ Goto(w, "temp_fail")
             /\ UNCHANGED <<fs, data>>
    /\ UNCHANGED <<params, aside, history_file, remote, existing_names, album_history,
                   file_tasks, next_task, counters, slot_queue, current_full, main_pc, run, ghosts>>

\* Mutant: the early return forgets fail_count += 1.
TempFailUncounted(w) ==
    /\ wk[w].pc = "temp_fail"
    /\ lock_free
    /\ Finish(w, "FailedTemp")
    /\ Release(w)
    /\ UNCHANGED <<params, aside, disk, history_file, remote, existing_names, album_history,
                   file_tasks, next_task, counters,
                   current_full, main_pc, run, calls, periodic_saves, at_start, prev>>

\* except Exception: with lock: fail_count += 1; return
TempFail(w) ==
    /\ wk[w].pc = "temp_fail"
    /\ lock_free
    /\ fail_count' = fail_count + 1
    /\ Finish(w, "FailedTemp")
    /\ Release(w)
    /\ UNCHANGED <<params, aside, disk, history_file, remote, existing_names, album_history,
                   file_tasks, next_task, upload_count, skip_count, processed_count,
                   current_full, main_pc, run, calls, periodic_saves, at_start, prev>>

\* Mutant: range(max_retries + 1).
in_retry_loop_one_more(w) == wk[w].attempt <= max_retries

\* Mutant: while True.
in_retry_loop_unbounded(w) == TRUE

\* for attempt in range(max_retries)
in_retry_loop(w) == wk[w].attempt < max_retries

\* Mutant: the temp file is not cleaned up.
after_upload_no_cleanup(w) == "periodic"

\* Cleanup temp file: "if temp_path" is false when nothing was renamed.
after_upload(w) == IF wk[w].temp_path # NoPath THEN "cleanup" ELSE "periodic"

\* Mutant: a successful upload is not recorded in the history.
record_history_never(name) == album_history

\* Mutant: the name is recorded with local_check off too.
record_history_always(name) == album_history \cup {name}

\* with lock: existing_names.add(cleaned_name);
\*            if local_check: album_history[cleaned_name] = True
record_history(name) == IF local_check THEN album_history \cup {name} ELSE album_history

\* Mutant: the wait comes before the first attempt too.
backoff_every_attempt(w) == wk[w].sleeps + 1

\* if attempt > 0: time.sleep(2), at the top of each turn of the retry loop
backoff(w) == IF wk[w].attempt > 0 THEN wk[w].sleeps + 1 ELSE wk[w].sleeps

\* Mutant: a file the service already had is not counted.
count_upload_new_only(count, is_existing) == IF is_existing THEN count ELSE count + 1

\* is_existing = getattr(ret, 'is_existing', False); with lock:
\* "if is_existing: pass", then upload_count += 1 whatever the flag
count_upload(count, is_existing) == count + 1

\* One attempt: ret = api.upload_1file(filePath=upload_path, ...).  A truthy
\* result is followed by the critical section that records the name and by
\* break; None or an exception is logged and the loop goes on.  The service
\* stores the file under the base name of upload_path, and cannot read a
\* file that is no longer there.
Upload(w) ==
    /\ wk[w].pc = "upload"
    /\ lock_free
    /\ in_retry_loop(w)
    /\ calls' = [calls EXCEPT ![wk[w].task] = @ + 1]
    /\ \/ /\ wk[w].upload_path \in DOMAIN fs
          /\ remote' = remote \cup {wk[w].upload_path.name}
          /\ existing_names' = existing_names \cup {wk[w].cleaned_name}
          /\ album_history' = record_history(wk[w].cleaned_name)
          /\ \E is_existing \in BOOLEAN :
                /\ upload_count' = count_upload(upload_count, is_existing)
                /\ wk' = [wk EXCEPT ![w].pc = after_upload(w),
                                    ![w].sleeps = backoff(w),
                                    ![w].is_existing = is_existing]
          /\ Finish(w, "Uploaded")
       \/ /\ wk' = [wk EXCEPT ![w].attempt = @ + 1, ![w].sleeps = backoff(w)]
          /\ UNCHANGED <<remote, existing_names, album_history, upload_count, outcome>>
    /\ UNCHANGED <<params, aside, disk, history_file, file_tasks, next_task, skip_count,
                   fail_count, processed_count, slot_queue, current_full, main_pc, run,
                   periodic_saves, at_start, prev>>

\* Mutant: the exhaustion of the retries is raised out of process_file.
AllFailedAborts(w) ==
    /\ wk[w].pc = "upload"
    /\ lock_free
    /\ ~in_retry_loop(w)
    /\ fail_count' = fail_count + 1
    /\ Finish(w, "Failed")
    /\ Goto(w, "aborted")
    /\ UNCHANGED <<params, aside, disk, history_file, remote, existing_names, album_history,
                   file_tasks, next_task, upload_count, skip_count, processed_count,
                   slot_queue, current_full, main_pc, run, calls, periodic_saves, at_start, prev>>

\* if not success: with lock: fail_count += 1
AllFailed(w) ==
    /\ wk[w].pc = "upload"
    /\ lock_free
    /\ ~in_retry_loop(w)
    /\ fail_count' = fail_count + 1
    /\ Finish(w, "Failed")
    /\ Goto(w, after_upload(w))
    /\ UNCHANGED <<params, aside, disk, history_file, remote, existing_names, album_history,
                   file_tasks, next_task, upload_count, skip_count, processed_count,
                   slot_queue, current_full, main_pc, run, calls, periodic_saves, at_start, prev>>

\* os.remove(path): the name goes; the inode is freed with its last name.
remove(files, content, path) ==
    LET left == [p \in DOMAIN files \ {path} |-> files[p]]
    IN <<left,
         IF \E p \in DOMAIN left : left[p] = files[path]
         THEN content
         ELSE [i \in DOMAIN content \ {files[path]} |-> content[i]]>>

\* if temp_path and os.path.exists(temp_path): os.remove(temp_path)
Cleanup(w) ==
    /\ wk[w].pc = "cleanup"
    /\ IF wk[w].temp_path \in DOMAIN fs
       THEN /\ fs' = remove(fs, data, wk[w].temp_path)[1]
            /\ data' = remove(fs, data, wk[w].temp_path)[2]
       ELSE UNCHANGED <<fs, data>>
    /\ Goto(w, "periodic")
    /\ UNCHANGED <<params, aside, history_file, remote, existing_names, album_history,
                   file_tasks, next_task, counters, slot_queue, current_full, main_pc, run, ghosts>>

\* Periodic Save: with lock: if processed_count % 20 == 0: save_progress()
save_due == processed_count % SaveEvery = 0

PeriodicSave(w) ==
    /\ wk[w].pc = "periodic"
    /\ lock_free
    /\ periodic_saves' = IF save_due THEN periodic_saves + 1 ELSE periodic_saves
    /\ IF save_due /\ local_check
       THEN /\ current_full' = save_progress_load(history_file)
            /\ Goto(w, "periodic_write")
            /\ UNCHANGED slot_queue
       ELSE /\ Release(w)
            /\ UNCHANGED current_full
    /\ UNCHANGED <<params, aside, disk, history_file, remote, existing_names, album_history,
                   file_tasks, next_task, counters, main_pc, run,
                   outcome, calls, at_start, prev>>

\* ... save_history(current_full), still inside "with lock:"
PeriodicWrite(w) ==
    /\ wk[w].pc = "periodic_write"
    /\ history_file' = save_progress_dump(current_full)
    /\ current_full' = EmptyDoc
    /\ Release(w)
    /\ UNCHANGED <<params, aside, disk, remote, existing_names, album_history,
                   file_tasks, next_task, counters, main_pc, run, ghosts>>

(***************************************************************************)
(* After the loop, or after the executor has joined its workers: the       *)
(* final save, then the summary.                                           *)
(***************************************************************************)
\* Mutant: the final save does not wait for the workers.
all_dispatched == next_task > total_files

all_done == next_task > total_files /\ \A w \in Workers : wk[w].pc = "idle"

FinalSave ==
    /\ main_pc = "process"
    /\ all_done
    /\ IF local_check
       THEN /\ current_full' = save_progress_load(history_file)
            /\ main_pc' = "final_write"
       ELSE /\ main_pc' = "summary"
            /\ UNCHANGED current_full
    /\ UNCHANGED <<params, aside, disk, history_file, remote, existing_names, album_history,
                   file_tasks, next_task, counters, slot_queue, wk, run, ghosts>>

FinalWrite ==
    /\ main_pc = "final_write"
    /\ history_file' = save_progress_dump(current_full)
    /\ current_full' = EmptyDoc
    /\ main_pc' = "summary"
    /\ UNCHANGED <<params, aside, disk, remote, existing_names, album_history,
                   file_tasks, next_task, counters, slot_queue, wk, run, ghosts>>

Next ==
    \/ Start
    \/ \E w \in Workers : Begin(w)
    \/ \E w \in Workers : Count(w)
    \/ \E w \in Workers : CheckLocal(w)
    \/ \E w \in Workers : CheckCloud(w)
    \/ \E w \in Workers : Prepare(w)
    \/ \E w \in Workers : Collision(w)
    \/ \E w \in Workers : CollisionFail(w)
    \/ \E w \in Workers : Link(w)
    \/ \E w \in Workers : Copy(w)
    \/ \E w \in Workers : TempFail(w)
    \/ \E w \in Workers : Upload(w)
    \/ \E w \in Workers : AllFailed(w)
    \/ \E w \in Workers : Cleanup(w)
    \/ \E w \in Workers : PeriodicSave(w)
    \/ \E w \in Workers : PeriodicWrite(w)
    \/ FinalSave
    \/ FinalWrite

Spec == Init /\ [][Next]_vars

(***************************************************************************)
(* The runs of Spec, and long runs with local_check off, in which          *)
(* processed_count reaches SaveEvery with nothing to save.                 *)
(***************************************************************************)
LongScenariosUnchecked ==
    { Scenario(PadCount, S, FALSE, nt, 1, st) :
        S \in {T \in CoreSets : Cardinality(T) = 2}, nt \in 1..MaxThreads,
        st \in LongStarts }

InitUnchecked == Init \/ \E sc \in LongScenariosUnchecked : InitOf(sc)

SpecUnchecked == InitUnchecked /\ [][Next]_vars

(***************************************************************************)
(* Two runs: the same task is started again on the same directory, history *)
(* file and album.                                                         *)
(***************************************************************************)
Restart ==
    /\ main_pc = "summary"
    /\ run < MaxRuns
    /\ run' = run + 1
    /\ main_pc' = "start"
    /\ prev' = [p \in {file_tasks[t] : t \in 1..total_files} |->
                  outcome[CHOOSE t \in 1..total_files : file_tasks[t] = p]]
    /\ UNCHANGED <<params, aside, disk, history_file, remote, existing_names, album_history,
                   file_tasks, next_task, counters, slot_queue, wk, current_full,
                   outcome, calls, periodic_saves, at_start>>

NextTwice == Next \/ Restart

\* Both runs have local_check on; the long scenarios are run with one thread.
InitTwice == \E sc \in Scenarios : sc.lc /\ (sc.pad = 0 \/ sc.nt = 1) /\ InitOf(sc)

SpecTwice == InitTwice /\ [][NextTwice]_vars

(***************************************************************************)
(* Termination of the process at any point of a run, and the next start    *)
(* on the same directory, history file and album.  The memory of the       *)
(* process is gone; the directory, the history file and the remote album   *)
(* stay as they are.  save_history opens the file with mode 'w', which     *)
(* truncates it, and json.dump writes into it afterwards: a process        *)
(* terminated inside a save leaves the file as it was (the open had not    *)
(* happened) or cut short, which json.load rejects.                        *)
(***************************************************************************)
write_in_progress ==
    \/ main_pc = "final_write"
    \/ \E w \in Workers : wk[w].pc = "periodic_write"

Crash ==
    /\ main_pc \in {"process", "final_write"}
    /\ run < MaxRuns
    /\ history_file' \in (IF write_in_progress THEN {history_file, Corrupt}
                                               ELSE {history_file})
    /\ run' = run + 1
    /\ main_pc' = "start"
    /\ prev' = [p \in {file_tasks[t] : t \in 1..total_files} |->
                  outcome[CHOOSE t \in 1..total_files : file_tasks[t] = p]]
    /\ existing_names' = {} /\ album_history' = {}
    /\ at_start' = [album_history |-> {}, existing_names |-> {}]
    /\ file_tasks' = <<>> /\ next_task' = 1
    /\ upload_count' = 0 /\ skip_count' = 0 /\ fail_count' = 0 /\ processed_count' = 0
    /\ slot_queue' = <<>>
    /\ wk' = [w \in Workers |-> Idle]
    /\ current_full' = EmptyDoc
    /\ outcome' = <<>> /\ calls' = <<>> /\ periodic_saves' = 0
    /\ UNCHANGED <<params, aside, disk, remote>>

NextCrash == Next \/ Crash

\* The terminated run has local_check on and one attempt per upload; the
\* long scenarios are run with one thread.
InitCrash ==
    \E sc \in Scenarios : sc.lc /\ sc.mr = 1 /\ (sc.pad = 0 \/ sc.nt = 1) /\ InitOf(sc)

SpecCrash == InitCrash /\ [][NextCrash]_vars

(***************************************************************************)
(* A shared history file: another process running the same program for    *)
(* album B saves its history (save_progress there: reload, replace B's     *)
(* entry, write back) while this run is going on.                          *)
(***************************************************************************)
OtherProcessSave ==
    /\ main_pc \in {"process", "final_write"}
    /\ LET current == load_history(history_file)
           entry == IF "B" \in DOMAIN current THEN current["B"] ELSE {}
       IN /\ NameA \notin entry
          /\ history_file' = save_history(
                 [a \in DOMAIN current \cup {"B"} |->
                     IF a = "B" THEN entry \cup {NameA} ELSE current[a]])
    /\ UNCHANGED <<params, aside, disk, remote, existing_names, album_history,
                   file_tasks, next_task, counters, slot_queue, wk, current_full, main_pc, run, ghosts>>

NextShared == Next \/ OtherProcessSave

SpecShared == Init /\ [][NextShared]_vars

(***************************************************************************)
(* An exception that nothing in process_file catches (a write to the       *)
(* terminal that fails, for instance) leaves the try block at the          *)
(* statement that raised it: finally puts the slot back and the exception  *)
(* leaves process_file.  In the loop of the single-thread mode it leaves   *)
(* upload_task as well; in the pool it is kept in the result that          *)
(* executor.map yields, which nothing reads.                               *)
(***************************************************************************)
\* Mutant: the slot is put back at the end of the try block, not in finally.
UnexpectedNoFinally(w) ==
    /\ main_pc = "process"
    /\ wk[w].pc \notin {"idle", "periodic_write"}
    /\ outcome' = IF outcome[wk[w].task] = Pending
                  THEN [outcome EXCEPT ![wk[w].task] = Outcome("Raised", wk[w].cleaned_name)]
                  ELSE outcome
    /\ wk' = [wk EXCEPT ![w] = Idle]
    /\ main_pc' = IF num_threads <= 1 THEN "aborted" ELSE main_pc
    /\ UNCHANGED <<params, aside, disk, history_file, remote, existing_names, album_history,
                   file_tasks, next_task, counters, slot_queue, current_full, run, calls,
                   periodic_saves, at_start, prev>>

Unexpected(w) ==
    /\ main_pc = "process"
    /\ wk[w].pc \notin {"idle", "periodic_write"}
    /\ outcome' = IF outcome[wk[w].task] = Pending
                  THEN [outcome EXCEPT ![wk[w].task] = Outcome("Raised", wk[w].cleaned_name)]
                  ELSE outcome
    /\ Release(w)
    /\ main_pc' = IF num_threads <= 1 THEN "aborted" ELSE main_pc
    /\ UNCHANGED <<params, aside, disk, history_file, remote, existing_names, album_history,
                   file_tasks, next_task, counters, current_full, run, calls,
                   periodic_saves, at_start, prev>>

NextRaise == Next \/ \E w \in Workers : Unexpected(w)

\* The long scenarios are run with one thread.
InitRaise == \E sc \in Scenarios : (sc.pad = 0 \/ sc.nt = 1) /\ InitOf(sc)

SpecRaise == InitRaise /\ [][NextRaise]_vars

(***************************************************************************)
(* Failures of the history file inside save_progress.  load_history        *)
(* catches what open and json.load raise, prints a warning and returns {}; *)
(* save_history catches what open and json.dump raise and prints a         *)
(* warning: the file is then as it was (open failed) or cut short (the     *)
(* dump failed after the truncating open).  save_progress has a try of its *)
(* own around both.                                                        *)
(***************************************************************************)
\* What a failed save_history leaves on disk.
failed_write(on_disk) == {on_disk, Corrupt}

\* current_full = load_history(), failing, in the periodic save
PeriodicReadFails(w) ==
    /\ wk[w].pc = "periodic"
    /\ lock_free
    /\ save_due /\ local_check
    /\ periodic_saves' = periodic_saves + 1
    /\ current_full' = EmptyDoc
    /\ Goto(w, "periodic_write")
    /\ UNCHANGED <<params, aside, disk, history_file, remote, existing_names, album_history,
                   file_tasks, next_task, counters, slot_queue, main_pc, run,
                   outcome, calls, at_start, prev>>

\* Mutant: the exception of the write leaves save_progress and process_file.
PeriodicWriteRaises(w) ==
    /\ wk[w].pc = "periodic_write"
    /\ history_file' \in failed_write(history_file)
    /\ current_full' = EmptyDoc
    /\ Release(w)
    /\ main_pc' = IF num_threads <= 1 THEN "aborted" ELSE main_pc
    /\ UNCHANGED <<params, aside, disk, remote, existing_names, album_history,
                   file_tasks, next_task, counters, run, ghosts>>

\* save_history(current_full), failing, in the periodic save
PeriodicWriteFails(w) ==
    /\ wk[w].pc = "periodic_write"
    /\ history_file' \in failed_write(history_file)
    /\ current_full' = EmptyDoc
    /\ Release(w)
    /\ UNCHANGED <<params, aside, disk, remote, existing_names, album_history,
                   file_tasks, next_task, counters, main_pc, run, ghosts>>

\* current_full = load_history(), failing, in the final save
FinalReadFails ==
    /\ main_pc = "process"
    /\ all_done
    /\ local_check
    /\ current_full' = EmptyDoc
    /\ main_pc' = "final_write"
    /\ UNCHANGED <<params, aside, disk, history_file, remote, existing_names, album_history,
                   file_tasks, next_task, counters, slot_queue, wk, run, ghosts>>

\* save_history(current_full), failing, in the final save
FinalWriteFails ==
    /\ main_pc = "final_write"
    /\ history_file' \in failed_write(history_file)
    /\ current_full' = EmptyDoc
    /\ main_pc' = "summary"
    /\ UNCHANGED <<params, aside, disk, remote, existing_names, album_history,
                   file_tasks, next_task, counters, slot_queue, wk, run, ghosts>>

NextSaveFault ==
    \/ Next
    \/ \E w \in Workers : PeriodicReadFails(w)
    \/ \E w \in Workers : PeriodicWriteFails(w)
    \/ FinalReadFails
    \/ FinalWriteFails

\* Saves are made with local_check on.
InitSaveFault == \E sc \in Scenarios : sc.lc /\ InitOf(sc)

SpecSaveFault == InitSaveFault /\ [][NextSaveFault]_vars

(***************************************************************************)
(* The setup of upload_task, failing: each check and each guarded call     *)
(* before "Collect all files" ends in a bare return.  main_pc then names   *)
(* the return taken.  The history has been loaded into memory by the time  *)
(* of the returns that follow the load.                                    *)
(***************************************************************************)
SetupFailures == {"no_dir", "no_cookies", "login_failed", "album_failed", "fetch_failed"}

\* Mutant: the return is taken after a save of the empty in-memory history.
SetupFailsAfterSave ==
    /\ main_pc = "start"
    /\ \E cause \in SetupFailures :
          /\ main_pc' = cause
          /\ album_history' = (IF local_check /\ cause # "no_dir"
                               THEN get_album(load_history(history_file))
                               ELSE {})
    /\ history_file' = save_progress_dump(save_progress_load(history_file))
    /\ UNCHANGED <<params, aside, disk, remote, existing_names,
                   file_tasks, next_task, counters, slot_queue, wk, current_full,
                   run, ghosts>>

SetupFails ==
    /\ main_pc = "start"
    /\ \E cause \in SetupFailures :
          /\ main_pc' = cause
          /\ album_history' = (IF local_check /\ cause # "no_dir"
                               THEN get_album(load_history(history_file))
                               ELSE {})
    /\ UNCHANGED <<params, aside, disk, history_file, remote, existing_names,
                   file_tasks, next_task, counters, slot_queue, wk, current_full,
                   run, ghosts>>

NextSetup == Next \/ SetupFails

SpecSetup == Init /\ [][NextSetup]_vars

(***************************************************************************)
(* clean_filename on its own: a name of up to MaxLen characters, or the    *)
(* name "pi, emoji, .jpg", is sanitized, and the result is sanitized       *)
(* again.  960 is the Greek letter pi, 65535 the last character of the     *)
(* Basic Multilingual Plane, 65536 the first one above it.                 *)
(***************************************************************************)
Chars == {97, 960, 65535, 65536, 128512}
NamePiEmoji == <<960, 128512, 46, 106, 112, 103>>
NamePi == <<960, 46, 106, 112, 103>>
Texts == UNION {[1..n -> Chars] : n \in 0..MaxLen} \cup {NamePiEmoji}

\* The run is not started.
ProgramIdle ==
    ProgramInit(Scenario(0, {}, FALSE, 1, 0, [hist |-> Absent, rem |-> {}]))

program == <<params, disk, history_file, remote, existing_names, album_history,
             file_tasks, next_task, counters, slot_queue, wk, current_full, main_pc,
             run, ghosts>>

\* What a check of one function leaves alone.
except_clean == <<program, scanning, batch, sorting, printing, progress, locking>>
except_scan == <<program, cleanings, batch, sorting, printing, progress, locking>>
except_batch == <<program, cleanings, scanning, sorting, printing, progress, locking>>
except_sort == <<program, cleanings, scanning, batch, printing, progress, locking>>
except_print == <<program, cleanings, scanning, batch, sorting, progress, locking>>
except_progress == <<program, cleanings, scanning, batch, sorting, printing, locking>>
except_locking == <<program, cleanings, scanning, batch, sorting, printing, progress>>

InitClean ==
    /\ ProgramIdle /\ ScanIdle /\ BatchIdle /\ SortIdle /\ PrintIdle
    /\ ProgressIdle /\ LockingIdle
    /\ cleanings \in {<<text>> : text \in Texts}

\* cleaned_name = clean_filename(file)
CleanName ==
    /\ Len(cleanings) = 1
    /\ cleanings' = Append(cleanings, clean_filename(cleanings[1]))
    /\ UNCHANGED except_clean

\* clean_filename(cleaned_name)
CleanAgain ==
    /\ Len(cleanings) = 2
    /\ cleanings' = Append(cleanings, clean_filename(cleanings[2]))
    /\ UNCHANGED except_clean

NextClean == CleanName \/ CleanAgain

SpecClean == InitClean /\ [][NextClean]_vars

(***************************************************************************)
(* The directory scan on its own, for each of the two functions that have  *)
(* one.  A name is a tuple of characters; the directory holds up to        *)
(* MaxListing of the names of FileNames.                                   *)
(***************************************************************************)
MaxListing == 2

FileNames == {
    <<"a", ".", "j", "p", "g">>,
    <<"a", ".", "J", "P", "G">>,
    <<"a", ".", "J", "p", "e", "g">>,
    <<"a", ".", "t", "x", "t">>,
    <<"a">>,
    <<".", "j", "p", "g">>,
    <<"a", ".", "t", "s">>,
    <<"a", ".", "a", "r", "i", "a", "2">>,
    <<"a", ".", "j", "p", "g", ".", "a", "r", "i", "a", "2">>,
    <<"a", ".", "d", "o", "n", "e">>,
    <<"a", ".", "j", "p", "g", ".", "d", "o", "n", "e">>,
    <<"a", ".", "A", "R", "I", "A", "2">> }

UpperCase == <<"A", "B", "C", "D", "E", "F", "G", "H", "I", "J", "K", "L", "M",
               "N", "O", "P", "Q", "R", "S", "T", "U", "V", "W", "X", "Y", "Z">>
LowerCase == <<"a", "b", "c", "d", "e", "f", "g", "h", "i", "j", "k", "l", "m",
               "n", "o", "p", "q", "r", "s", "t", "u", "v", "w", "x", "y", "z">>

\* str.lower()
lower(text) ==
    [i \in 1..Len(text) |->
        IF \E k \in 1..26 : UpperCase[k] = text[i]
        THEN LowerCase[CHOOSE k \in 1..26 : UpperCase[k] = text[i]]
        ELSE text[i]]

\* str.endswith(suffix)
endswith(text, suffix) ==
    /\ Len(text) >= Len(suffix)
    /\ SubSeq(text, Len(text) - Len(suffix) + 1, Len(text)) = suffix

\* os.path.splitext(fname)[1]: from the last dot on, when a character other
\* than a dot comes before it; otherwise empty.
splitext_ext(text) ==
    LET dots == {i \in 1..Len(text) : text[i] = "."}
        last == CHOOSE i \in dots : \A j \in dots : j <= i
    IN IF dots # {} /\ \E j \in 1..(last - 1) : text[j] # "."
       THEN SubSeq(text, last, Len(text))
       ELSE <<>>

VALID_EXTENSIONS == {
    <<".", "j", "p", "g">>, <<".", "j", "p", "e", "g">>, <<".", "p", "n", "g">>,
    <<".", "b", "m", "p">>, <<".", "g", "i", "f">>, <<".", "w", "e", "b", "p">>,
    <<".", "h", "e", "i", "c">>, <<".", "t", "i", "f">>, <<".", "t", "i", "f", "f">>,
    <<".", "m", "p", "4">>, <<".", "m", "o", "v">>, <<".", "a", "v", "i">>,
    <<".", "m", "k", "v">>, <<".", "f", "l", "v">>, <<".", "w", "m", "v">>,
    <<".", "m", "4", "v">>, <<".", "t", "s">>, <<".", "w", "e", "b", "m">>,
    <<".", "v", "o", "b">>, <<".", "m", "t", "s">>, <<".", "m", "2", "t", "s">>,
    <<".", "a", "r", "w">>, <<".", "c", "r", "2">>, <<".", "c", "r", "3">>,
    <<".", "n", "e", "f">>, <<".", "d", "n", "g">>, <<".", "o", "r", "f">>,
    <<".", "r", "a", "f">>, <<".", "r", "w", "2">>, <<".", "s", "r", "2">>,
    <<".", "s", "r", "f">>, <<".", "s", "r", "w">>, <<".", "n", "r", "w">>,
    <<".", "k", "2", "5">>, <<".", "k", "d", "c">>, <<".", "d", "c", "s">>,
    <<".", "d", "c", "r">>, <<".", "d", "r", "f">>, <<".", "o", "b", "m">>,
    <<".", "p", "e", "f">>, <<".", "p", "t", "x">>, <<".", "p", "x", "n">>,
    <<".", "r", "3", "d">>, <<".", "r", "w", "l">>, <<".", "r", "w", "z">>,
    <<".", "x", "3", "f">>, <<".", "3", "f", "r">>, <<".", "a", "r", "i">>,
    <<".", "b", "a", "y">>, <<".", "c", "r", "w">>, <<".", "c", "a", "p">>,
    <<".", "d", "a", "t", "a">>, <<".", "e", "i", "p">>, <<".", "e", "r", "f">>,
    <<".", "f", "f", "f">>, <<".", "g", "p", "r">>, <<".", "i", "i", "q">>,
    <<".", "m", "d", "c">>, <<".", "m", "e", "f">>, <<".", "m", "o", "s">>,
    <<".", "m", "r", "w">>, <<".", "l", "r", "f">>, <<".", "i", "n", "s", "v">> }

\* ext = os.path.splitext(fname)[1].lower(); ext in VALID_EXTENSIONS
is_valid(fname) == lower(splitext_ext(fname)) \in VALID_EXTENSIONS

aria2 == <<".", "a", "r", "i", "a", "2">>
done == <<".", "d", "o", "n", "e">>

\* The suffixes each function removes.
Markers(entry) ==
    IF entry = "upload_task" THEN {aria2} ELSE {aria2, done}

is_marker(entry, fname) == \E m \in Markers(entry) : endswith(fname, m)

InitScan ==
    /\ ProgramIdle /\ BatchIdle /\ SortIdle /\ PrintIdle /\ cleanings = <<>>
    /\ ProgressIdle /\ LockingIdle
    /\ entry_point \in {"upload_task", "upload_folder_task"}
    /\ listed \in {L \in SUBSET FileNames : Cardinality(L) <= MaxListing}
    /\ folder = listed
    /\ to_scan = listed
    /\ scan_tasks = <<>>
    /\ remove_failed = {}

\* try: os.remove(file_path) / except: warning; continue
RemoveMarker(fname) ==
    /\ \E removed \in BOOLEAN :
          /\ folder' = IF removed THEN folder \ {fname} ELSE folder
          /\ remove_failed' = IF removed THEN remove_failed
                              ELSE remove_failed \cup {fname}
    /\ UNCHANGED scan_tasks

\* One turn of the loop over the files in upload_task.
UploadTaskScan ==
    /\ entry_point = "upload_task"
    /\ \E fname \in to_scan :
          /\ to_scan' = to_scan \ {fname}
          /\ IF endswith(fname, aria2)
             THEN RemoveMarker(fname)
             ELSE /\ scan_tasks' = IF is_valid(fname)
                                   THEN Append(scan_tasks, fname)
                                   ELSE scan_tasks
                  /\ UNCHANGED <<folder, remove_failed>>
    /\ UNCHANGED <<except_scan, entry_point, listed>>

\* One turn of the loop over the files in upload_folder_task.
UploadFolderScan ==
    /\ entry_point = "upload_folder_task"
    /\ \E fname \in to_scan :
          /\ to_scan' = to_scan \ {fname}
          /\ IF endswith(fname, aria2) \/ endswith(fname, done)
             THEN RemoveMarker(fname)
             ELSE /\ scan_tasks' = Append(scan_tasks, fname)
                  /\ UNCHANGED <<folder, remove_failed>>
    /\ UNCHANGED <<except_scan, entry_point, listed>>

NextScan == UploadTaskScan \/ UploadFolderScan

SpecScan == InitScan /\ [][NextScan]_vars

(***************************************************************************)
(* The sort step on its own: file_tasks.sort(key=lambda x:                 *)
(* os.path.getsize(...)) on up to MaxFiles files, some of which            *)
(* os.path.getsize cannot read (it raises OSError: the file was removed    *)
(* after the walk, or is a link to nothing).  Nothing around the sort      *)
(* catches the exception.                                                  *)
(***************************************************************************)
Unreadable == -1
SortSizes == {Unreadable, 100, 200}
SortFiles == 1..MaxFiles

InitSort ==
    /\ ProgramIdle /\ ScanIdle /\ BatchIdle /\ PrintIdle /\ cleanings = <<>>
    /\ ProgressIdle /\ LockingIdle
    /\ walked \in UNION {{f \in [1..n -> SortFiles] :
                            \A i, j \in 1..n : i # j => f[i] # f[j]} : n \in 0..MaxFiles}
    /\ sizes \in [SortFiles -> SortSizes]
    /\ sort_pc = "sort"
    /\ sort_tasks = walked

\* os.path.getsize(os.path.join(x[0], x[1]))
getsize(f) == sizes[f]

\* list.sort computes every key first; a key that raises leaves the list as
\* it was and the exception leaves upload_task.
SortTasks ==
    /\ sort_pc = "sort"
    /\ LET keyed == [i \in 1..Len(sort_tasks) |->
                        [path |-> sort_tasks[i], size |-> getsize(sort_tasks[i])]]
           sorted == SortBySize(keyed)
       IN IF \E i \in 1..Len(keyed) : keyed[i].size = Unreadable
          THEN /\ sort_pc' = "raised"
               /\ UNCHANGED sort_tasks
          ELSE /\ sort_pc' = "sorted"
               /\ sort_tasks' = [i \in 1..Len(sorted) |-> sorted[i].path]
    /\ UNCHANGED <<except_sort, walked, sizes>>

\* total_files = len(file_tasks), and on to the tasks.
ProceedSorted ==
    /\ sort_pc = "sorted"
    /\ sort_pc' = "process"
    /\ UNCHANGED <<except_sort, walked, sizes, sort_tasks>>

NextSort == SortTasks \/ ProceedSorted

SpecSort == InitSort /\ [][NextSort]_vars

(***************************************************************************)
(* upload_album over a list of targets.  A target is the state of its      *)
(* configuration; upload_task is taken by what it returns.                 *)
(***************************************************************************)
MaxTargets == 3
MaxTotal == 1

TargetStates == {"ok", "not_found", "no_dir", "no_cookies", "login_failed"}
ConfigErrors == {"not_found", "no_dir", "no_cookies"}
\* The value of a bare return, told apart from every dict.
None == [none |-> TRUE]

\* Mutant: a row comes back whatever the configuration.
upload_task_always_stats(target, state, total) ==
    [name |-> target, total |-> total]

\* What upload_task returns: nothing at each early return, the counts at
\* the end.
upload_task_returns(target, state, total) ==
    IF state = "ok" THEN [name |-> target, total |-> total] ELSE None

\* `if stats:` -- None is false, a dict with keys is true.
truthy(stats) == stats # None

InitBatch ==
    /\ ProgramIdle /\ ScanIdle /\ SortIdle /\ PrintIdle /\ cleanings = <<>>
    /\ ProgressIdle /\ LockingIdle
    /\ targets \in UNION {[1..n -> TargetStates] : n \in 0..MaxTargets}
    /\ batch_pc = "loop"
    /\ batch_i = 0
    /\ batch_calls = <<>>
    /\ summary_report = <<>>

\* if total_targets == 0: return
NoTargets ==
    /\ batch_pc = "loop" /\ Len(targets) = 0
    /\ batch_pc' = "done"
    /\ UNCHANGED <<except_batch, targets, batch_i, batch_calls,
                   summary_report>>

\* One turn of `for i, item in enumerate(targets)`.
ProcessTarget ==
    /\ batch_pc = "loop" /\ batch_i < Len(targets)
    /\ \E total \in 0..MaxTotal :
          LET target == batch_i + 1
              stats == upload_task_returns(target, targets[target], total)
          IN /\ batch_calls' = Append(batch_calls, target)
             /\ summary_report' = IF truthy(stats)
                                  THEN Append(summary_report, stats)
                                  ELSE summary_report
             /\ batch_i' = target
    /\ UNCHANGED <<except_batch, targets, batch_pc>>

\* The loop is over; the final summary is printed.
FinalSummary ==
    /\ batch_pc = "loop" /\ Len(targets) > 0 /\ batch_i = Len(targets)
    /\ batch_pc' = "done"
    /\ UNCHANGED <<except_batch, targets, batch_i, batch_calls,
                   summary_report>>

NextBatch == NoTargets \/ ProcessTarget \/ FinalSummary

SpecBatch == InitBatch /\ [][NextBatch]_vars

(***************************************************************************)
(* MultiLinePrinter on its own: up to MaxCallers threads make up to        *)
(* MaxCalls calls each of update(slot_id, text) or log(text) on a printer  *)
(* of up to MaxLines lines.  A step is the taking of self.lock or one      *)
(* write to sys.stdout.  The text of a call is the pair of its thread and  *)
(* its number; Waiting stands for "Waiting...".  A write to the terminal   *)
(* is recorded with the call that made it and, for a status line, with     *)
(* the number of assignments self.lines had seen by then, and with the row *)
(* the cursor was on.  Rows are counted from the top row of the screen,    *)
(* row 0, above which the cursor cannot move; the screen is taller than    *)
(* everything written.  The printer is made with the cursor on one of the  *)
(* rows 0..MaxStart, after whatever the program has written before.        *)
(***************************************************************************)
MaxLines == 2
MaxCallers == 2
MaxCalls == 2
MaxStart == 3

Callers == 1..MaxCallers
Waiting == <<0, 0>>
num_lines == Len(lines)

IdleCaller == [pc |-> "idle", op |-> "none", slot_id |-> 0, text |-> Waiting,
               row |-> 0, made |-> 0]

Written(c, kind, row, text) ==
    [call |-> callers[c].text, kind |-> kind, row |-> row, text |-> text,
     version |-> lines_version, at |-> cursor]

\* _move_up(n): "\033[{n}A" moves the cursor n rows up, not above the top row.
move_up(from, n) == IF n > 0 THEN (IF from - n > 0 THEN from - n ELSE 0) ELSE from

InitPrinter ==
    /\ ProgramIdle /\ ScanIdle /\ BatchIdle /\ SortIdle /\ cleanings = <<>>
    /\ ProgressIdle /\ LockingIdle
    /\ printer_lock = 0
    /\ lines \in {[i \in 1..n |-> Waiting] : n \in 1..MaxLines}
    /\ lines_version = 0
    /\ terminal = <<>>
    /\ callers = [c \in Callers |-> IdleCaller]
    /\ reserved \in 0..MaxStart
    /\ cursor = move_up(reserved + num_lines, num_lines)

\* A thread calls printer.update(slot_id, text) or printer.log(text).
CallPrinter(c) ==
    /\ callers[c].pc = "idle"
    /\ callers[c].made < MaxCalls
    /\ \E op \in {"update", "log"}, slot_id \in -1..num_lines :
          /\ op = "log" => slot_id = 0
          /\ callers' = [callers EXCEPT ![c] =
                            [pc |-> "acquire", op |-> op, slot_id |-> slot_id,
                             text |-> <<c, callers[c].made + 1>>, row |-> 0,
                             made |-> callers[c].made]]
    /\ UNCHANGED <<except_print, printer_lock, lines, lines_version, terminal, cursor, reserved>>

\* Mutant: the calls do not wait for self.lock.
printer_lock_ignored == TRUE

\* with self.lock:
printer_lock_free == printer_lock = 0

\* update: with self.lock: if 0 <= slot_id < self.num_lines:
\*             self.lines[slot_id] = text, then self._redraw();
\* outside the range the with block ends at once.
AcquireUpdate(c) ==
    /\ callers[c].pc = "acquire" /\ callers[c].op = "update"
    /\ printer_lock_free
    /\ IF 0 <= callers[c].slot_id /\ callers[c].slot_id < num_lines
       THEN /\ lines' = [lines EXCEPT ![callers[c].slot_id + 1] = callers[c].text]
            /\ lines_version' = lines_version + 1
            /\ printer_lock' = c
            /\ callers' = [callers EXCEPT ![c].pc = "move_up"]
       ELSE /\ callers' = [callers EXCEPT ![c].pc = "idle", ![c].made = @ + 1]
            /\ UNCHANGED <<lines, lines_version, printer_lock>>
    /\ UNCHANGED <<except_print, terminal, cursor, reserved>>

\* log: with self.lock:
AcquireLog(c) ==
    /\ callers[c].pc = "acquire" /\ callers[c].op = "log"
    /\ printer_lock_free
    /\ printer_lock' = c
    /\ callers' = [callers EXCEPT ![c].pc = "move_up"]
    /\ UNCHANGED <<except_print, lines, lines_version, terminal, cursor, reserved>>

\* self._move_up(self.num_lines): sys.stdout.write(f"\033[{n}A")
MoveUp(c) ==
    /\ callers[c].pc = "move_up"
    /\ terminal' = Append(terminal, Written(c, "up", num_lines, Waiting))
    /\ callers' = [callers EXCEPT ![c].pc = IF callers[c].op = "log" THEN "clear" ELSE "line",
                                  ![c].row = 1]
    /\ cursor' = move_up(cursor, num_lines)
    /\ UNCHANGED <<except_print, printer_lock, lines, lines_version, reserved>>

\* sys.stdout.write("\033[J")
ClearBelow(c) ==
    /\ callers[c].pc = "clear"
    /\ terminal' = Append(terminal, Written(c, "clear", 0, Waiting))
    /\ callers' = [callers EXCEPT ![c].pc = "text"]
    /\ UNCHANGED <<except_print, printer_lock, lines, lines_version, cursor, reserved>>

\* sys.stdout.write(f"{text}\n")
WriteLog(c) ==
    /\ callers[c].pc = "text"
    /\ terminal' = Append(terminal, Written(c, "log", 0, callers[c].text))
    /\ callers' = [callers EXCEPT ![c].pc = "line"]
    /\ cursor' = cursor + 1
    /\ UNCHANGED <<except_print, printer_lock, lines, lines_version, reserved>>

\* for line in self.lines: sys.stdout.write(f"{line}\033[K\n")
WriteLine(c) ==
    /\ callers[c].pc = "line"
    /\ terminal' = Append(terminal,
                          Written(c, "line", callers[c].row, lines[callers[c].row]))
    /\ callers' = [callers EXCEPT ![c].row = @ + 1,
                                  ![c].pc = IF callers[c].row = num_lines
                                            THEN "flush" ELSE "line"]
    /\ cursor' = cursor + 1
    /\ UNCHANGED <<except_print, printer_lock, lines, lines_version, reserved>>

\* sys.stdout.flush(), and the end of the with block
FlushRelease(c) ==
    /\ callers[c].pc = "flush"
    /\ printer_lock' = 0
    /\ callers' = [callers EXCEPT ![c].pc = "idle", ![c].made = @ + 1]
    /\ UNCHANGED <<except_print, lines, lines_version, terminal, cursor, reserved>>

NextPrinter ==
    \/ \E c \in Callers : CallPrinter(c)
    \/ \E c \in Callers : AcquireUpdate(c)
    \/ \E c \in Callers : AcquireLog(c)
    \/ \E c \in Callers : MoveUp(c)
    \/ \E c \in Callers : ClearBelow(c)
    \/ \E c \in Callers : WriteLog(c)
    \/ \E c \in Callers : WriteLine(c)
    \/ \E c \in Callers : FlushRelease(c)

SpecPrinter == InitPrinter /\ [][NextPrinter]_vars

(***************************************************************************)
(* The progress callback of one task on its own: create_progress_callback  *)
(* is called once per attempt, and upload_1file then invokes the callback  *)
(* it returned, one invocation at a time.  The clock is time.time() in     *)
(* tenths of a second; it reads Epoch when the first callback is made,     *)
(* which is more than half a second after the zero last_print_time starts  *)
(* from.  Sizes are in units of the block the upload reports.              *)
(***************************************************************************)
MaxClock == 11
MaxBytes == 2
MaxInvocations == 3
MaxAttempts == 2
Epoch == 6
HalfSecond == 5
TenthSecond == 1

NoEta == [none |-> TRUE]

InitProgress ==
    /\ ProgramIdle /\ ScanIdle /\ BatchIdle /\ SortIdle /\ PrintIdle
    /\ LockingIdle
    /\ cleanings = <<>>
    /\ clock = Epoch
    /\ total_size \in 0..MaxBytes
    /\ attempt_no = 1
    /\ start_time = Epoch
    /\ last_print_time = 0
    /\ invocations = <<>>
    /\ renders = <<>>

\* time passes
Tick ==
    /\ attempt_no > 0
    /\ clock < MaxClock
    /\ clock' = clock + 1
    /\ UNCHANGED <<except_progress, total_size, attempt_no, start_time,
                   last_print_time, invocations, renders>>

\* The next attempt of the retry loop: progress_cb = create_progress_callback(...)
\* start_time = time.time(); last_print_time = 0
create_progress_callback ==
    /\ attempt_no > 0 /\ attempt_no < MaxAttempts
    /\ attempt_no' = attempt_no + 1
    /\ start_time' = clock
    /\ last_print_time' = 0
    /\ invocations' = <<>>
    /\ UNCHANGED <<except_progress, clock, total_size, renders>>

\* Mutant: no throttle.
throttle_off(current_time, last) == TRUE

\* current_time - last_print_time >= 0.5
throttle_passed(current_time, last) == current_time - last >= HalfSecond

\* speed = uploaded_mb / elapsed_seconds if elapsed_seconds > 0.1 else 0,
\* as the fraction num / den of sizes per tenth of a second
speed(uploaded_size, elapsed_seconds) ==
    IF elapsed_seconds > TenthSecond
    THEN [num |-> uploaded_size, den |-> elapsed_seconds]
    ELSE [num |-> 0, den |-> 1]

\* eta_seconds = int(remaining_mb / speed) if speed > 0, else "--:--:--"
eta(uploaded_size, elapsed_seconds) ==
    IF speed(uploaded_size, elapsed_seconds).num > 0
    THEN ((total_size - uploaded_size) * speed(uploaded_size, elapsed_seconds).den)
            \div speed(uploaded_size, elapsed_seconds).num
    ELSE NoEta

\* callback(uploaded_size, total_size)
callback(uploaded_size) ==
    /\ attempt_no > 0
    /\ Len(invocations) < MaxInvocations
    /\ invocations' = Append(invocations, uploaded_size)
    /\ IF throttle_passed(clock, last_print_time) \/ uploaded_size >= total_size
       THEN /\ renders' = Append(renders,
                   [attempt |-> attempt_no, time |-> clock,
                    uploaded_size |-> uploaded_size,
                    elapsed |-> clock - start_time,
                    speed |-> speed(uploaded_size, clock - start_time),
                    eta |-> eta(uploaded_size, clock - start_time)])
            /\ last_print_time' = clock
       ELSE UNCHANGED <<renders, last_print_time>>
    /\ UNCHANGED <<except_progress, clock, total_size, attempt_no, start_time>>

NextProgress ==
    \/ Tick
    \/ create_progress_callback
    \/ \E uploaded_size \in 0..MaxBytes : callback(uploaded_size)

SpecProgress == InitProgress /\ [][NextProgress]_vars

(***************************************************************************)
(* The locks of process_file on their own.  The body of process_file is    *)
(* read as the sequence of its blocking operations: "get" and "put" on     *)
(* slot_queue, "lock" and "unlock" for the entry and exit of a `with lock` *)
(* block, "print" and "printed" for the entry and exit of the `with        *)
(* self.lock` block of printer.update or printer.log.  A thread takes one  *)
(* step per operation and waits where the operation cannot be done.        *)
(***************************************************************************)
MaxQueued == 3

Locked == <<"lock", "unlock">>
Printed == <<"print", "printed">>

\* lines 251-276: the slot, the count of the task, the lookup in the history
Prologue == <<"get">> \o Locked \o Locked

\* lines 278-283
SkipLocalPath == Prologue \o Locked \o Printed \o <<"put">>

\* lines 287-298
SkipCloudPath == Prologue \o Locked \o Locked \o Printed \o <<"put">>

\* lines 287-289, 300, 386, 400-413: [Start], one progress update,
\* the record of the success, [Success]
UploadedBody == Locked \o Printed \o Printed \o Locked \o Printed

\* lines 287-289, 300, 416-423: [Start], [Error], the count of the failure,
\* [Failed]
FailedBody == Locked \o Printed \o Printed \o Locked \o Printed

\* Mutant: the periodic log takes the printer's lock first.
periodic_printer_first(due, save_raised) ==
    IF due THEN <<"print", "lock", "unlock", "printed">> ELSE Locked

\* lines 433-436 and 235-243: with lock: if processed_count % 20 == 0:
\* save_progress(), which logs when the save raised, then printer.log
periodic(due, save_raised) ==
    <<"lock">>
    \o (IF due /\ save_raised THEN Printed ELSE <<>>)
    \o (IF due THEN Printed ELSE <<>>)
    \o <<"unlock">>

Paths ==
    {SkipLocalPath, SkipCloudPath}
    \cup {Prologue \o body \o periodic(due, save_raised) \o <<"put">> :
             body \in {UploadedBody, FailedBody},
             due \in BOOLEAN, save_raised \in BOOLEAN}

IdleThread == [path |-> <<>>, at |-> 0]
Threads == DOMAIN threads
Op(w) == IF threads[w].at = 0 THEN "none" ELSE threads[w].path[threads[w].at]
Advance(w) == threads' = [threads EXCEPT ![w].at = @ + 1]

\* lines 224-232: lock and slot_queue as made, num_threads slots put
InitLocking ==
    /\ ProgramIdle /\ ScanIdle /\ BatchIdle /\ SortIdle /\ PrintIdle
    /\ ProgressIdle
    /\ cleanings = <<>>
    /\ \E n \in 1..MaxThreads :
          /\ threads = [w \in 1..n |-> IdleThread]
          /\ slots_free = n
    /\ state_lock = 0
    /\ print_lock = 0
    /\ queued \in 1..MaxQueued

\* lines 442-453: the loop or the executor hands a task to a thread
StartTask(w) ==
    /\ threads[w].at = 0
    /\ queued > 0
    /\ queued' = queued - 1
    /\ \E path \in Paths : threads' = [threads EXCEPT ![w] = [path |-> path, at |-> 1]]
    /\ UNCHANGED <<except_locking, state_lock, print_lock, slots_free>>

\* slot_id = slot_queue.get()
GetSlot(w) ==
    /\ Op(w) = "get"
    /\ slots_free > 0
    /\ slots_free' = slots_free - 1
    /\ Advance(w)
    /\ UNCHANGED <<except_locking, state_lock, print_lock, queued>>

\* with lock:
EnterLock(w) ==
    /\ Op(w) = "lock"
    /\ state_lock = 0
    /\ state_lock' = w
    /\ Advance(w)
    /\ UNCHANGED <<except_locking, print_lock, slots_free, queued>>

ExitLock(w) ==
    /\ Op(w) = "unlock"
    /\ state_lock' = 0
    /\ Advance(w)
    /\ UNCHANGED <<except_locking, print_lock, slots_free, queued>>

\* printer.update, printer.log: with self.lock:
EnterPrinter(w) ==
    /\ Op(w) = "print"
    /\ print_lock = 0
    /\ print_lock' = w
    /\ Advance(w)
    /\ UNCHANGED <<except_locking, state_lock, slots_free, queued>>

ExitPrinter(w) ==
    /\ Op(w) = "printed"
    /\ print_lock' = 0
    /\ Advance(w)
    /\ UNCHANGED <<except_locking, state_lock, slots_free, queued>>

\* finally: slot_queue.put(slot_id)
PutSlot(w) ==
    /\ Op(w) = "put"
    /\ slots_free' = slots_free + 1
    /\ threads' = [threads EXCEPT ![w] = IdleThread]
    /\ UNCHANGED <<except_locking, state_lock, print_lock, queued>>

NextLocking ==
    \/ \E w \in Threads : StartTask(w)
    \/ \E w \in Threads : GetSlot(w)
    \/ \E w \in Threads : EnterLock(w)
    \/ \E w \in Threads : ExitLock(w)
    \/ \E w \in Threads : EnterPrinter(w)
    \/ \E w \in Threads : ExitPrinter(w)
    \/ \E w \in Threads : PutSlot(w)

SpecLocking == InitLocking /\ [][NextLocking]_vars

(***************************************************************************)
(* Claims.                                                                 *)
(***************************************************************************)
Tasks == 1..total_files
Kind(t) == outcome[t].kind
Terminal(t) == Kind(t) # "Pending"
cleaned(t) == clean_filename(file_tasks[t].name)
loaded == at_start.album_history
fetched == at_start.existing_names
persisted == get_album(load_history(history_file))
Recorded == {outcome[t].name : t \in {u \in Tasks : Kind(u) \in {"Uploaded", "SkippedCloud"}}}

\* C1: when a run reaches the summary, upload_count + skip_count +
\* fail_count equals total_files, the number of discovered tasks.
C1_CountsReconcile ==
    main_pc = "summary" => upload_count + skip_count + fail_count = total_files

C1_Witness ==
    /\ main_pc = "summary" /\ num_threads > 1
    /\ upload_count > 0 /\ skip_count > 0 /\ fail_count > 0

\* C2: with num_threads > 1, of the tasks whose filenames sanitize to the
\* same name at most one ends Uploaded under a given recorded filename.
C2_OneUploadPerName ==
    num_threads > 1 =>
        \A t1, t2 \in Tasks :
            (/\ t1 # t2 /\ cleaned(t1) = cleaned(t2)
             /\ Kind(t1) = "Uploaded" /\ Kind(t2) = "Uploaded")
            => outcome[t1].name # outcome[t2].name

\* C4: a task whose every upload call fails gets exactly max_retries calls,
\* never more, and then ends Failed: fail_count grows by one, upload_count,
\* the remote index and the history stay as they are.
C4_Step ==
    /\ \A t \in DOMAIN calls' : calls'[t] <= max_retries
    /\ \A w \in Workers :
          wk'[w].pc = "upload" => calls'[wk'[w].task] = wk'[w].attempt
    /\ \A t \in DOMAIN outcome \cap DOMAIN outcome' :
          (outcome[t].kind = "Pending" /\ outcome'[t].kind = "Failed") =>
              /\ calls[t] = max_retries
              /\ fail_count' = fail_count + 1
              /\ UNCHANGED <<upload_count, existing_names, album_history, remote>>

C4_RetryBound == [][C4_Step]_vars

C4_Witness ==
    \E t \in Tasks : Kind(t) = "Failed" /\ calls[t] = max_retries /\ max_retries > 1

(***************************************************************************)
(* The run with num_threads = 1, "for task in file_tasks:                  *)
(* process_file(task)", computed task by task for an upload capability     *)
(* and a file system that never fail: the temp file of a task is gone      *)
(* before the next task starts, so every task sees the directory as it     *)
(* was at discovery.                                                       *)
(***************************************************************************)
SeqInit ==
    [album_history |-> loaded, existing_names |-> fetched, outcome |-> <<>>,
     upload_count |-> 0, skip_count |-> 0, fail_count |-> 0]

SeqTask(s, p) ==
    LET n == clean_filename(p.name)
        renamed == p.name # n /\ Path(p.dir, n) \in DOMAIN fs
        final == IF renamed THEN safe_name(n) ELSE n
        end(k, x) == Append(s.outcome, Outcome(k, x))
    IN IF local_check /\ n \in s.album_history
       THEN [s EXCEPT !.outcome = end("SkippedLocal", n), !.skip_count = @ + 1]
       ELSE IF n \in s.existing_names
       THEN [s EXCEPT !.outcome = end("SkippedCloud", n), !.skip_count = @ + 1,
                      !.album_history = IF local_check THEN @ \cup {n} ELSE @]
       ELSE IF renamed /\ Path(p.dir, final) \in DOMAIN fs
       THEN [s EXCEPT !.outcome = end("FailedCollision", n), !.fail_count = @ + 1]
       ELSE IF max_retries = 0
       THEN [s EXCEPT !.outcome = end("Failed", final), !.fail_count = @ + 1]
       ELSE [s EXCEPT !.outcome = end("Uploaded", final), !.upload_count = @ + 1,
                      !.existing_names = @ \cup {final},
                      !.album_history = IF local_check THEN @ \cup {final} ELSE @]

RECURSIVE SeqRun(_)
SeqRun(k) == IF k = 0 THEN SeqInit ELSE SeqTask(SeqRun(k - 1), file_tasks[k])

\* No call of the upload capability and no creation of a temp file failed.
NothingFailed ==
    \A t \in Tasks :
        /\ Kind(t) # "FailedTemp"
        /\ Kind(t) = "Failed" => max_retries = 0
        /\ calls[t] = (IF Kind(t) = "Uploaded" THEN 1 ELSE 0)

SameAsSequential ==
    LET s == SeqRun(total_files)
    IN /\ outcome = s.outcome
       /\ upload_count = s.upload_count
       /\ skip_count = s.skip_count
       /\ fail_count = s.fail_count
       /\ album_history = s.album_history

\* C3: for an upload capability whose result depends only on the file (here
\* the one that always succeeds), a run with num_threads > 1 ends with the
\* per-file outcomes, counters and history names of the run with
\* num_threads = 1 on the same tasks, history and remote index.
C3_ThreadsEquivalent ==
    (main_pc = "summary" /\ num_threads > 1 /\ NothingFailed) => SameAsSequential

FirstRunRecorded(t) ==
    /\ file_tasks[t] \in DOMAIN prev
    /\ prev[file_tasks[t]].kind \in {"Uploaded", "SkippedLocal", "SkippedCloud"}
    /\ prev[file_tasks[t]].name = cleaned(t)

FirstRunClean ==
    \A p \in DOMAIN prev : prev[p].kind \in {"Uploaded", "SkippedLocal", "SkippedCloud"}

SecondRunSkips(t) ==
    /\ calls[t] = 0
    /\ Kind(t) \in {"Pending", "SkippedLocal"}

\* C5: in a second run of the same task with local_check on and the same
\* history file, every file whose first run ended Uploaded or skipped with
\* its sanitized name recorded is classified SkipLocal without an upload
\* call; when no task of the first run failed, that is every file and the
\* upload capability is not called at all.
C5_SecondRunSkipsRecorded ==
    (run = 2 /\ main_pc # "start") =>
        /\ \A t \in Tasks : FirstRunRecorded(t) => SecondRunSkips(t)
        /\ FirstRunClean => \A t \in Tasks : SecondRunSkips(t)

C5_Witness ==
    /\ run = 2 /\ main_pc = "summary" /\ num_threads > 1 /\ total_files > 1
    /\ FirstRunClean
    /\ \E p \in DOMAIN prev : prev[p].kind = "Uploaded"
    /\ \A t \in Tasks : Kind(t) = "SkippedLocal" /\ calls[t] = 0

\* C5 as stated: in the second run every file is classified SkipLocal and
\* the upload capability is invoked zero times.
C5_SecondRunAllSkipLocal ==
    (run = 2 /\ main_pc # "start") => \A t \in Tasks : SecondRunSkips(t)

\* C6: a task whose sanitized name is in the album history, with
\* local_check on, ends SkippedLocal at the first check, with no upload call
\* and no change to the history or the remote index, whatever the remote
\* index holds; otherwise a name in the remote index ends the task
\* SkippedCloud; otherwise the task goes on to the upload.
C6_Step ==
    \A w \in Workers :
        LET n == wk[w].cleaned_name
            t == wk[w].task
        IN /\ (wk[w].pc = "check_local" /\ wk'[w] # wk[w]) =>
                 IF local_check /\ n \in album_history
                 THEN /\ outcome'[t] = Outcome("SkippedLocal", n)
                      /\ calls'[t] = 0
                      /\ UNCHANGED <<album_history, existing_names, remote>>
                 ELSE /\ wk'[w].pc = "check_cloud"
                      /\ outcome'[t] = Pending
           /\ (wk[w].pc = "check_cloud" /\ wk'[w] # wk[w]) =>
                 IF n \in existing_names
                 THEN /\ outcome'[t] = Outcome("SkippedCloud", n)
                      /\ calls'[t] = 0
                 ELSE /\ wk'[w].pc \in {"prepare", "upload"}
                      /\ outcome'[t] = Pending
           /\ (wk[w].pc # "upload" /\ wk'[w].pc = "upload") =>
                 /\ ~(local_check /\ cleaned(t) \in loaded)
                 /\ cleaned(t) \notin fetched

C6_ClassificationOrder == [][C6_Step]_vars

C6_Witness ==
    /\ local_check
    /\ \E t \in Tasks : /\ Kind(t) = "SkippedLocal"
                        /\ outcome[t].name \in loaded \cap fetched
    /\ \E t \in Tasks : Kind(t) = "SkippedCloud"
    /\ \E t \in Tasks : Kind(t) = "Uploaded"

\* C7: with local_check on, the name of a task that ended SkippedCloud is in
\* the in-memory album history from that moment, and after the final save
\* the album's entry in the history file holds it.
C7_CloudSkipBackfilled ==
    local_check =>
        \A t \in Tasks :
            Kind(t) = "SkippedCloud" =>
                /\ outcome[t].name \in album_history
                /\ main_pc = "summary" => outcome[t].name \in persisted

C7_Witness ==
    /\ local_check /\ main_pc = "summary"
    /\ \E t \in Tasks : /\ Kind(t) = "SkippedCloud"
                        /\ outcome[t].name \notin loaded
                        /\ outcome[t].name \in persisted

\* C8: with local_check on, every SaveEvery-th completed task, whatever its
\* outcome, triggers exactly one periodic save: a run that reached the
\* summary has made total_files \div SaveEvery periodic saves.
C8_SaveEveryTwentyCompleted ==
    (main_pc = "summary" /\ local_check) =>
        periodic_saves = total_files \div SaveEvery

OtherAlbums(history) == DOMAIN history \ {album_name}

ThisRunReads ==
    \/ \E w \in Workers : wk[w].pc = "periodic" /\ wk'[w].pc = "periodic_write"
    \/ main_pc = "process" /\ main_pc' = "final_write"

ThisRunWrites ==
    \/ \E w \in Workers : wk[w].pc = "periodic_write" /\ wk'[w].pc # "periodic_write"
    \/ main_pc = "final_write" /\ main_pc' = "summary"

\* C10: a save of this run, periodic or final, first reads the document the
\* file holds at that moment, then writes a document that holds the
\* in-memory names as the entry of the current album and every other album
\* exactly as the read found it, an entry written by another process during
\* the run included; with local_check off the run never saves.
C10_Step ==
    /\ ThisRunReads =>
          /\ local_check
          /\ current_full' = load_history(history_file)
          /\ history_file' = history_file
    /\ ThisRunWrites =>
          LET after == load_history(history_file')
          IN /\ local_check
             /\ history_file'.state = "ok"
             /\ DOMAIN after = DOMAIN current_full \cup {album_name}
             /\ after[album_name] = album_history
             /\ \A a \in OtherAlbums(current_full) : after[a] = current_full[a]

C10_SaveWritesBackWhatItRead == [][C10_Step]_vars

\* C10 as stated: the entries of the other albums that the file holds when
\* a save of this run writes are unchanged by the write.
C10_WriteStep ==
    ThisRunWrites =>
        LET before == load_history(history_file)
            after == load_history(history_file')
        IN \A a \in OtherAlbums(before) : a \in DOMAIN after /\ after[a] = before[a]

C10_SaveKeepsOtherAlbums == [][C10_WriteStep]_vars

C10_Witness ==
    /\ main_pc = "summary" /\ local_check
    /\ periodic_saves > 0
    /\ history_file.state = "ok"
    /\ "B" \in DOMAIN history_file.doc
    /\ NameA \in history_file.doc["B"]
    /\ persisted = album_history /\ album_history # loaded

\* Every album and every name of the document old is in the document new.
Contains(new, old) ==
    \A a \in DOMAIN old : a \in DOMAIN new /\ old[a] \subseteq new[a]

Crashes == run' = run + 1 /\ main_pc # "summary"

\* C11: when the process is terminated at any point of a run, a save in
\* progress included, the document the next start reads holds every album
\* and every name of the document written by the last completed save.
C11_CrashStep ==
    Crashes => Contains(load_history(history_file'), load_history(history_file))

C11_CrashKeepsCheckpoint == [][C11_CrashStep]_vars

UploadedNotCheckpointed(t) ==
    /\ file_tasks[t] \in DOMAIN prev
    /\ prev[file_tasks[t]].kind = "Uploaded"
    /\ ~(local_check /\ prev[file_tasks[t]].name \in loaded)

\* C12: in the run after a terminated one, a file that was uploaded but not
\* checkpointed gets no upload call: it is skipped, through the remote index
\* (or through the history, once a task of the same name has put the name
\* back there).
C12_UploadedThenSkipCloud ==
    (run = 2 /\ main_pc # "start") =>
        \A t \in Tasks :
            UploadedNotCheckpointed(t) =>
                /\ calls[t] = 0
                /\ Kind(t) \in {"Pending", "SkippedCloud", "SkippedLocal"}

Sources == {file_tasks[t] : t \in Tasks}

\* Task t needs a new name and the sanitized name is taken by a source file
\* of its directory.
Collides(t) ==
    /\ file_tasks[t].name # cleaned(t)
    /\ Path(file_tasks[t].dir, cleaned(t)) \in Sources

\* C13: of three files of a directory colliding on one sanitized name (the
\* file that bears the name and two that sanitize to it), the second is
\* uploaded under the _safe name and the third, unless it is skipped as a
\* duplicate or its temp file cannot be created, ends Failed with a naming
\* collision and no upload call.
C13_ThirdCollidingFails ==
    main_pc = "summary" =>
        \A t2, t3 \in Tasks :
            (/\ t2 < t3
             /\ Collides(t2) /\ Collides(t3)
             /\ file_tasks[t2].dir = file_tasks[t3].dir
             /\ cleaned(t2) = cleaned(t3)
             /\ outcome[t2] = Outcome("Uploaded", safe_name(cleaned(t2)))
             /\ Kind(t3) \notin {"SkippedLocal", "SkippedCloud", "FailedTemp"})
            => (Kind(t3) = "FailedCollision" /\ calls[t3] = 0)

\* The positions of text that hold a character of the Basic Multilingual
\* Plane, and the number of them up to position i.
KeptPositions(text) == {i \in 1..Len(text) : text[i] <= 65535}
KeptUpTo(text, i) == Cardinality({k \in KeptPositions(text) : k <= i})

\* C14: clean_filename removes exactly the characters above U+FFFF and
\* keeps the others in their order (pi, emoji, .jpg becomes pi.jpg); applied
\* to its own result, or to a name with no such character, it changes
\* nothing.
C14_CleanFilename ==
    Len(cleanings) >= 2 =>
        LET text == cleanings[1]
            once == cleanings[2]
        IN /\ Len(once) = Cardinality(KeptPositions(text))
           /\ \A i \in KeptPositions(text) : once[KeptUpTo(text, i)] = text[i]
           /\ KeptPositions(text) = 1..Len(text) => once = text
           /\ text = NamePiEmoji => once = NamePi
           /\ Len(cleanings) >= 3 => cleanings[3] = once

C14_Witness ==
    /\ Len(cleanings) = 3
    /\ cleanings[1] = NamePiEmoji
    /\ cleanings[3] = NamePi

Materialized(w) == wk[w].temp_path # NoPath /\ wk[w].pc \in {"upload", "cleanup"}

\* C15: a task that has materialized a file under the sanitized name (by
\* link or by copy) passes that file to every upload call, and removes it
\* before it finishes, whatever the calls returned: the path does not exist
\* after the task's cleanup, and at the summary the directory holds the
\* discovered files and nothing else.
C15_Step ==
    /\ \A w \in Workers :
          /\ (wk[w].pc \in {"link", "copy"} /\ wk'[w].pc = "upload") =>
                /\ wk'[w].temp_path \in DOMAIN fs'
                /\ wk'[w].upload_path = wk'[w].temp_path
          /\ (Materialized(w) /\ wk[w].pc = "upload") =>
                /\ wk[w].upload_path = wk[w].temp_path
                /\ wk'[w].pc \in {"upload", "cleanup"}
          /\ (Materialized(w) /\ wk[w].pc = "cleanup" /\ wk'[w] # wk[w]) =>
                /\ wk[w].temp_path \notin DOMAIN fs'
                /\ wk'[w].pc = "periodic"
    /\ main_pc' = "summary" => DOMAIN fs' = {file_tasks'[t] : t \in 1..Len(file_tasks')}

InFlight == {w \in Workers : wk[w].pc # "idle"}
Slots == {slot_queue[i] : i \in 1..Len(slot_queue)}
Holder(t) == {w \in InFlight : wk[w].task = t}

\* C16: during a run the tasks in flight hold distinct display slots, the
\* free and the held slots together are the num_threads slots (so at most
\* num_threads tasks are in flight, a starting task finds a free slot, and
\* at most num_threads upload calls run at once); every task below
\* next_task is held by exactly one worker or has its terminal outcome,
\* every other task is untouched, and at the summary each task has one
\* outcome.
C16_BoundedExactlyOnce ==
    main_pc \in {"process", "final_write", "summary"} =>
        /\ Cardinality(InFlight) + Len(slot_queue) = num_threads
        /\ Cardinality(Slots) = Len(slot_queue)
        /\ Slots \cup {wk[w].slot : w \in InFlight} = 0..(num_threads - 1)
        /\ \A t \in Tasks :
              /\ Cardinality(Holder(t)) <= 1
              /\ t >= next_task => (Holder(t) = {} /\ ~Terminal(t) /\ calls[t] = 0)
              /\ t < next_task => (Holder(t) # {} \/ Terminal(t))
              /\ (Terminal(t) /\ Holder(t) # {}) =>
                    \A w \in Holder(t) : wk[w].pc \in {"cleanup", "periodic", "periodic_write"}
        /\ main_pc = "summary" => (next_task = total_files + 1 /\ InFlight = {})

C16_Witness ==
    /\ num_threads = 2
    /\ \A w \in Workers : wk[w].pc = "upload"
    /\ slot_queue = <<>>
    /\ \E t \in Tasks : Terminal(t)

size(p) == SizeOf(data[fs[p]])
Ascending(tasks) ==
    \A i, j \in 1..Len(tasks) : i < j => size(tasks[i]) <= size(tasks[j])
TaskSizes == [t \in Tasks |-> size(file_tasks[t])]

\* Three files of 300, 100 and 200 bytes, nothing in the history or the
\* remote index, one thread, every upload call succeeds.
ThreeFiles ==
    /\ num_threads = 1 /\ max_retries > 0
    /\ total_files = 3 /\ {TaskSizes[t] : t \in Tasks} = {100, 200, 300}
    /\ loaded = {} /\ fetched = {}
    /\ NothingFailed

\* C17: the task list is every file of the directory once, in ascending
\* order of size; tasks are started in the order of the list; with one
\* thread a task starts only when every task before it has its terminal
\* outcome; the three files of 300, 100 and 200 bytes are processed in the
\* order 100, 200, 300 and give total 3, uploaded 3, skipped 0, failed 0.
C17_Step ==
    /\ (main_pc = "start" /\ main_pc' = "process") =>
          /\ Ascending(file_tasks')
          /\ {file_tasks'[t] : t \in 1..Len(file_tasks')} = DOMAIN fs
          /\ Len(file_tasks') = Cardinality(DOMAIN fs)
    /\ \A w \in Workers :
          (wk[w].pc = "idle" /\ wk'[w].pc # "idle") =>
              /\ wk'[w].task = next_task
              /\ next_task' = next_task + 1
              /\ num_threads = 1 => \A u \in 1..(next_task - 1) : Terminal(u)
    /\ (main_pc' = "summary" /\ ThreeFiles') =>
          /\ TaskSizes' = <<100, 200, 300>>
          /\ upload_count' = 3 /\ skip_count' = 0 /\ fail_count' = 0

C17_AscendingSequential == [][C17_Step]_vars

C17_Witness ==
    /\ main_pc = "summary" /\ ThreeFiles
    /\ TaskSizes = <<100, 200, 300>>
    /\ upload_count = 3 /\ total_files = 3

Visited == listed \ to_scan
InTasks(fname) == \E k \in 1..Len(scan_tasks) : scan_tasks[k] = fname

\* What the scan owes a file it has visited: a task exactly for the names
\* without a marker suffix and with a whitelisted extension; a file with a
\* marker suffix is deleted, unless its deletion failed, and is no task.
Discovered(fname) ==
    /\ InTasks(fname) <=> (~is_marker(entry_point, fname) /\ is_valid(fname))
    /\ is_marker(entry_point, fname) =>
          /\ ~InTasks(fname)
          /\ fname \in folder => fname \in remove_failed

\* C18: in upload_task and in upload_folder_task alike, a visited file is a
\* task if and only if its name has no marker suffix and its extension, in
\* lower case, is in the whitelist; a file with a marker suffix is deleted
\* and is no task, and a failed deletion leaves the scan going.
C18_DiscoveryWhitelist == \A fname \in Visited : Discovered(fname)

\* The same for upload_task alone.
C18_AlbumScanWhitelist ==
    entry_point = "upload_task" => \A fname \in Visited : Discovered(fname)

RowsOf(target) ==
    {k \in 1..Len(summary_report) : summary_report[k].name = target}

\* C20: in upload_album, upload_task is called for the targets one by one
\* in list order, each once; a target that has a configuration error adds
\* no row to the summary report and the targets after it are still
\* handled; a target that runs to its end adds one row, and the rows are in
\* list order.
C20_BatchSkipsBadTargets ==
    /\ batch_calls = [k \in 1..batch_i |-> k]
    /\ batch_pc = "done" => batch_i = Len(targets)
    /\ \A target \in 1..batch_i :
          /\ targets[target] \in ConfigErrors => RowsOf(target) = {}
          /\ targets[target] = "ok" => Cardinality(RowsOf(target)) = 1
    /\ \A j, k \in 1..Len(summary_report) :
          j < k => summary_report[j].name < summary_report[k].name

C20_Witness ==
    /\ batch_pc = "done" /\ Len(targets) = 3
    /\ targets[1] \in ConfigErrors /\ targets[2] = "ok" /\ targets[3] = "ok"
    /\ batch_calls = <<1, 2, 3>>
    /\ Len(summary_report) = 2

\* A task whose every upload call failed.
Exhausted(t) == Kind(t) = "Failed" /\ calls[t] = max_retries

\* The steps of a run between its start and its summary: those of the
\* tasks, and the final save.
Processing ==
    \/ \E w \in Workers : Begin(w)
    \/ \E w \in Workers : Count(w)
    \/ \E w \in Workers : CheckLocal(w)
    \/ \E w \in Workers : CheckCloud(w)
    \/ \E w \in Workers : Prepare(w)
    \/ \E w \in Workers : Collision(w)
    \/ \E w \in Workers : CollisionFail(w)
    \/ \E w \in Workers : Link(w)
    \/ \E w \in Workers : Copy(w)
    \/ \E w \in Workers : TempFail(w)
    \/ \E w \in Workers : Upload(w)
    \/ \E w \in Workers : AllFailed(w)
    \/ \E w \in Workers : Cleanup(w)
    \/ \E w \in Workers : PeriodicSave(w)
    \/ \E w \in Workers : PeriodicWrite(w)
    \/ FinalSave
    \/ FinalWrite

\* C19: whatever tasks have failed and whatever upload calls have raised,
\* a run that has started is never stuck before its summary: a step of a
\* task or of the final save can be taken.  At the summary every task,
\* those after a failed one included, has its terminal outcome, and the
\* final save has written the names recorded in memory to the history
\* file.
C19_FailureNeverAborts ==
    /\ main_pc \in {"start", "summary"} \/ ENABLED Processing
    /\ main_pc = "summary" =>
          /\ \A t \in Tasks : Terminal(t)
          /\ local_check => persisted = album_history

C19_Witness ==
    /\ main_pc = "summary" /\ local_check
    /\ \E t, u \in Tasks :
          /\ t < u /\ Exhausted(t) /\ max_retries > 0
          /\ Kind(u) = "Uploaded"

\* A worker between its lookups, which found the name in neither set, and
\* the critical section that records the name after the upload.
DecidedUpload(w) == wk[w].pc \in {"prepare", "collision", "link", "copy", "upload"}

\* C21: no two workers are at the same time past their lookups with the
\* decision to upload for the same sanitized name.
C21_DedupOneCriticalSection ==
    \A w1, w2 \in Workers :
        (w1 # w2 /\ DecidedUpload(w1) /\ DecidedUpload(w2)) =>
            clean_filename(file(w1)) # clean_filename(file(w2))

Held == {wk[w].slot : w \in InFlight}

\* C22: the slots held by the tasks in flight are distinct slots of
\* 0..num_threads-1 and none of them is in the pool; a task that has left
\* process_file, by any of its returns, by the end of the function or by an
\* exception, holds no slot; and when no task is in flight the pool holds
\* the slots 0..num_threads-1, each once.
C22_SlotsExclusiveAndReturned ==
    main_pc # "start" =>
        /\ \A w1, w2 \in InFlight : w1 # w2 => wk[w1].slot # wk[w2].slot
        /\ Held \subseteq 0..(num_threads - 1)
        /\ Held \cap Slots = {}
        /\ \A i, j \in 1..Len(slot_queue) : i # j => slot_queue[i] # slot_queue[j]
        /\ InFlight = {} =>
              /\ Slots = 0..(num_threads - 1)
              /\ Len(slot_queue) = num_threads

C22_Witness ==
    /\ num_threads = 2 /\ main_pc = "summary" /\ InFlight = {}
    /\ \E t \in Tasks : Kind(t) = "Raised"
    /\ {Kind(t) : t \in Tasks} \cap {"Uploaded", "Failed", "SkippedCloud", "SkippedLocal"} # {}
    /\ slot_queue = <<1, 0>>

\* C23: while tasks are processed the free slots and the tasks in flight
\* are num_threads together, so a worker that is about to take a task
\* finds a slot in the pool.
C23_AcquisitionNeverBlocks ==
    main_pc = "process" =>
        /\ Len(slot_queue) + Cardinality(InFlight) = num_threads
        /\ \A w \in Workers :
              (wk[w].pc = "idle" /\ next_task <= total_files) => slot_queue # <<>>

C23_Witness ==
    /\ main_pc = "process" /\ num_threads = 2 /\ next_task <= total_files
    /\ wk[1].pc = "upload" /\ wk[2].pc = "idle"
    /\ \E t \in Tasks : Terminal(t)
    /\ Len(slot_queue) = 1

BecomesUploaded(t) == outcome[t].kind # "Uploaded" /\ outcome'[t].kind = "Uploaded"

\* C24: a task that has ended Uploaded gets no further upload call and
\* keeps its outcome; the step that makes it Uploaded is one upload call,
\* counts it once, adds its final name to the remote index, and to the
\* history when local_check is on, and takes its worker out of the retry
\* loop; nothing else adds to the remote index or to upload_count.  The
\* waits of a task are one fewer than its upload calls: one before every
\* attempt but the first, none after the last.
C24_Step ==
    /\ \A t \in DOMAIN outcome \cap DOMAIN outcome' :
          /\ outcome[t].kind = "Uploaded" =>
                (calls'[t] = calls[t] /\ outcome'[t] = outcome[t])
          /\ BecomesUploaded(t) =>
                /\ calls'[t] = calls[t] + 1
                /\ upload_count' = upload_count + 1
                /\ existing_names' = existing_names \cup {outcome'[t].name}
                /\ album_history' = (IF local_check
                                     THEN album_history \cup {outcome'[t].name}
                                     ELSE album_history)
                /\ \A w \in Workers :
                      wk[w].task = t => wk'[w].pc \in {"cleanup", "periodic"}
    /\ (main_pc = "process" /\ <<upload_count, existing_names>>' # <<upload_count, existing_names>>) =>
          \E t \in DOMAIN outcome : BecomesUploaded(t)
    /\ \A w \in Workers :
          wk'[w].pc # "idle" =>
              wk'[w].sleeps = (IF calls'[wk'[w].task] = 0 THEN 0
                               ELSE calls'[wk'[w].task] - 1)

C24_StopAtFirstSuccess == [][C24_Step]_vars

C24_Witness ==
    \E w \in Workers :
        /\ wk[w].pc \in {"cleanup", "periodic"}
        /\ Kind(wk[w].task) = "Uploaded"
        /\ calls[wk[w].task] = 2 /\ wk[w].sleeps = 1 /\ max_retries = 2

\* C25: an upload call whose result has is_existing set counts the task as
\* uploaded, adds its name to the remote index, and to the history when
\* local_check is on, ends the retry loop and makes the outcome Uploaded,
\* as a result without the flag does.
C25_Step ==
    \A w \in Workers :
        (wk[w].pc = "upload" /\ wk'[w].pc # "upload") =>
            LET t == wk[w].task
                effect(flag) ==
                    /\ wk'[w] = [wk[w] EXCEPT !.pc = after_upload(w),
                                              !.sleeps = backoff(w),
                                              !.is_existing = flag]
                    /\ upload_count' = upload_count + 1
                    /\ outcome'[t] = Outcome("Uploaded", wk[w].cleaned_name)
                    /\ existing_names' = existing_names \cup {wk[w].cleaned_name}
                    /\ album_history' = (IF local_check
                                         THEN album_history \cup {wk[w].cleaned_name}
                                         ELSE album_history)
                    /\ UNCHANGED <<skip_count, fail_count, processed_count>>
            IN outcome'[t].kind = "Uploaded" => effect(wk'[w].is_existing)

C25_ExistingCountsAsUploaded == [][C25_Step]_vars

C25_Witness ==
    \E w \in Workers :
        /\ wk[w].pc \in {"cleanup", "periodic"} /\ wk[w].is_existing
        /\ Kind(wk[w].task) = "Uploaded" /\ upload_count > 0
        /\ wk[w].cleaned_name \in existing_names

\* A worker inside the critical section that spans two steps: the
\* periodic save between its read and its write of the file.
HoldsLock(v) == wk[v].pc = "periodic_write"

\* C26: while tasks are processed no step removes a name from the remote
\* index or from the in-memory history; a name enters the remote index in
\* the step that makes a task Uploaded under that name, the service then
\* holding the name; and a step that changes either set is taken while no
\* other worker holds the lock.
C26_Step ==
    main_pc \in {"process", "final_write"} =>
        /\ existing_names \subseteq existing_names'
        /\ album_history \subseteq album_history'
        /\ \A n \in existing_names' \ existing_names :
              /\ n \in remote'
              /\ \E t \in Tasks : BecomesUploaded(t) /\ outcome'[t].name = n
        /\ <<existing_names, album_history>>' # <<existing_names, album_history>> =>
              ~\E v \in Workers : HoldsLock(v)

C26_IndexAndHistoryGrow == [][C26_Step]_vars

C26_Witness ==
    /\ main_pc = "process" /\ local_check /\ num_threads = 2
    /\ \E t, u \in Tasks :
          /\ Kind(t) = "Uploaded" /\ outcome[t].name \in existing_names \ fetched
          /\ Kind(u) = "SkippedCloud" /\ outcome[u].name \in album_history \ loaded

Readable == {walked[i] : i \in {k \in 1..Len(walked) : sizes[walked[k]] # Unreadable}}

\* C27: the sort step ends with the ordered task list whatever sizes could
\* be read: the list holds every file whose size can be read, in ascending
\* order of size, and the run goes on to process it.
C27_UnreadableSizeKeepsScan ==
    sort_pc # "sort" =>
        /\ sort_pc \in {"sorted", "process"}
        /\ Readable \subseteq {sort_tasks[i] : i \in 1..Len(sort_tasks)}
        /\ \A i, j \in 1..Len(sort_tasks) :
              (i < j /\ sort_tasks[i] \in Readable /\ sort_tasks[j] \in Readable)
                  => sizes[sort_tasks[i]] <= sizes[sort_tasks[j]]

\* The same when every size can be read.
C27_ReadableSorted ==
    (sort_pc # "sort" /\ Readable = {walked[i] : i \in 1..Len(walked)}) =>
        /\ sort_pc \in {"sorted", "process"}
        /\ \A i, j \in 1..Len(sort_tasks) :
              i < j => sizes[sort_tasks[i]] <= sizes[sort_tasks[j]]

\* The steps of save_progress that read and that write the history file,
\* and those of them that failed.
SaveReads ==
    \/ \E w \in Workers : wk[w].pc = "periodic" /\ wk'[w].pc = "periodic_write"
    \/ main_pc = "process" /\ main_pc' = "final_write"
SaveWrites ==
    \/ \E w \in Workers : wk[w].pc = "periodic_write" /\ wk'[w].pc # "periodic_write"
    \/ main_pc = "final_write" /\ main_pc' # "final_write"
FailedRead == SaveReads /\ current_full' # load_history(history_file)
FailedWrite ==
    SaveWrites /\ history_file' # save_history(set_album(current_full, album_history))

\* C28: a save whose read or write of the history file fails changes
\* neither the in-memory history, nor the remote index, nor the counters,
\* nor any outcome; the saving worker goes on as after a save that worked
\* (the periodic save ends its task and frees its slot, the final save is
\* followed by the summary); and a task is skipped as SkippedLocal exactly
\* when its name is in the in-memory history, whatever the file holds.
C28_Step ==
    /\ (FailedRead \/ FailedWrite) =>
          /\ UNCHANGED <<album_history, existing_names, remote, counters, outcome,
                         calls, next_task, disk>>
          /\ \A w \in Workers :
                /\ (wk[w].pc = "periodic_write" /\ wk'[w] # wk[w]) =>
                      (wk'[w] = Idle /\ main_pc' = main_pc
                       /\ slot_queue' = Append(slot_queue, wk[w].slot))
                /\ (wk[w].pc = "periodic" /\ wk'[w] # wk[w]) =>
                      (wk'[w] = [wk[w] EXCEPT !.pc = "periodic_write"]
                       /\ main_pc' = main_pc)
          /\ main_pc = "process" /\ main_pc' # main_pc => main_pc' = "final_write"
          /\ main_pc = "final_write" => main_pc' = "summary"
    /\ \A w \in Workers :
          (wk[w].pc = "check_local" /\ wk'[w].pc # "check_local") =>
              (outcome'[wk[w].task].kind = "SkippedLocal"
                  <=> wk[w].cleaned_name \in album_history)
    /\ main_pc' = "summary" => \A t \in DOMAIN outcome' : outcome'[t].kind # "Pending"

C28_FailedSaveOnlyWarns == [][C28_Step]_vars

\* A periodic save has failed and left the file cut short; a task that
\* started before it is about to be classified with a name that only the
\* in-memory history holds.
C28_Witness ==
    /\ main_pc = "process" /\ periodic_saves = 1
    /\ history_file = Corrupt /\ loaded # {}
    /\ \A w \in Workers : wk[w].pc # "periodic_write"
    /\ \E w \in Workers :
          /\ wk[w].pc = "check_local"
          /\ wk[w].cleaned_name \in album_history \ loaded

\* C29: a setup step that fails ends the target where it stands, before
\* the files are collected: the step makes no upload call, leaves the
\* source directory and the history file as they are, and nothing
\* follows it; no task was discovered and no call was made before it.
C29_Step ==
    /\ main_pc' \in SetupFailures =>
          /\ main_pc = "start"
          /\ file_tasks' = <<>> /\ calls' = <<>> /\ outcome' = <<>>
          /\ UNCHANGED <<disk, history_file, remote, counters>>
    /\ main_pc \in SetupFailures => UNCHANGED vars

C29_SetupFailureAbortsTarget == [][C29_Step]_vars

C29_Witness ==
    /\ main_pc = "fetch_failed" /\ local_check
    /\ album_history # {} /\ history_file.state = "ok"
    /\ DOMAIN fs # {} /\ file_tasks = <<>> /\ calls = <<>>

Writes == 1..Len(terminal)
CallsDrawn == {terminal[i].call : i \in Writes}

\* The writes of one call are next to each other on the terminal.
Uninterleaved ==
    \A i, j, k \in Writes :
        (i < j /\ j < k /\ terminal[i].call = terminal[k].call)
            => terminal[j].call = terminal[i].call

\* The status lines of one call are rows of one value of self.lines.
OneSnapshot ==
    \A i, j \in Writes :
        (/\ terminal[i].call = terminal[j].call
         /\ terminal[i].kind = "line" /\ terminal[j].kind = "line")
            => terminal[i].version = terminal[j].version

OutOfRange(c) ==
    /\ callers[c].pc = "acquire" /\ callers[c].op = "update"
    /\ ~(0 <= callers[c].slot_id /\ callers[c].slot_id < num_lines)

\* C30: the writes of an update or log call are never interleaved with
\* those of another call, the status lines a call draws are one snapshot
\* of self.lines, and an update whose slot is outside 0..num_lines-1
\* changes no line and writes nothing.
C30_Step ==
    /\ Uninterleaved'
    /\ OneSnapshot'
    /\ \A c \in Callers :
          (OutOfRange(c) /\ callers'[c] # callers[c]) =>
              /\ UNCHANGED <<lines, terminal>>
              /\ callers'[c].pc = "idle"

C30_PrinterCallsAtomic == [][C30_Step]_vars

C30_Witness ==
    /\ \A c \in Callers : callers[c].pc = "idle" /\ callers[c].made = MaxCalls
    /\ \E a, b \in CallsDrawn : a[1] # b[1]
    /\ \E i, j \in Writes : terminal[i].kind = "log" /\ terminal[j].kind = "line"
                            /\ terminal[j].text # Waiting
    /\ \E c \in Callers : <<c, 1>> \notin CallsDrawn /\ <<c, 2>> \in CallsDrawn

\* The log calls whose text is on the terminal before write i.
LogsBefore(i) == Cardinality({j \in 1..(i - 1) : terminal[j].kind = "log"})

\* C31: every status line is written on its row of the block __init__
\* reserved, shifted down by one row per log call made before, and between
\* two calls the cursor is on the row just below that block; no call writes
\* above the block but for the one row a log call adds.
C31_RedrawsReservedBlock ==
    /\ \A i \in Writes :
          terminal[i].kind = "line" =>
              terminal[i].at = reserved + LogsBefore(i) + terminal[i].row - 1
    /\ \A i \in Writes :
          terminal[i].kind = "log" => terminal[i].at = reserved + LogsBefore(i)
    /\ (printer_lock = 0 /\ terminal # <<>>) =>
          cursor = reserved + LogsBefore(Len(terminal) + 1) + num_lines

\* On a screen whose top row is where the printer was made, the first call
\* cannot move above the block, and the block is redrawn in place.
C31_InPlaceFromTopRow ==
    reserved = 0 => C31_RedrawsReservedBlock

C31_Witness ==
    /\ reserved = 0 /\ printer_lock = 0
    /\ \E i, j \in Writes : /\ i < j /\ terminal[i].kind = "log"
                            /\ terminal[j].kind = "line" /\ terminal[j].text # Waiting
                            /\ terminal[j].call # terminal[i].call

Rendered == 1..Len(renders)
RendersOfAttempt == {i \in Rendered : renders[i].attempt = attempt_no}

\* The time of the last render of the current attempt, or none.
RenderedBefore == RendersOfAttempt # {}
LastRender == renders[CHOOSE i \in RendersOfAttempt :
                          \A j \in RendersOfAttempt : j <= i].time

Invoked == Len(invocations') = Len(invocations) + 1
Invocation == invocations'[Len(invocations')]

\* C32: an invocation of the callback renders exactly when the transfer is
\* complete or half a second has passed since the last render of the attempt
\* (the first invocation of an attempt has no render before it and renders);
\* two renders of one attempt with the transfer incomplete at the later one
\* are at least half a second apart; the throughput shown is 0 while at most
\* a tenth of a second has elapsed.
C32_Step ==
    Invoked =>
        /\ (Len(renders') = Len(renders) + 1) <=>
              \/ Invocation >= total_size
              \/ ~RenderedBefore
              \/ clock - LastRender >= HalfSecond
        /\ Len(renders') \in {Len(renders), Len(renders) + 1}
        /\ \A i \in Rendered : renders'[i] = renders[i]
        /\ \A i, j \in 1..Len(renders') :
              (/\ i < j /\ renders'[i].attempt = renders'[j].attempt
               /\ renders'[j].uploaded_size < total_size)
                  => renders'[j].time - renders'[i].time >= HalfSecond
        /\ \A i \in 1..Len(renders') :
              renders'[i].elapsed <= TenthSecond => renders'[i].speed.num = 0

C32_ProgressThrottled == [][C32_Step]_vars

C32_Witness ==
    /\ attempt_no = 2 /\ total_size = MaxBytes
    /\ Len(invocations) = MaxInvocations
    /\ \E i, j \in RendersOfAttempt : /\ i < j
                                      /\ renders[i].uploaded_size < total_size
                                      /\ renders[j].uploaded_size < total_size
                                      /\ renders[j].speed.num > 0
    /\ \E i \in Rendered : renders[i].attempt = 1 /\ renders[i].uploaded_size = total_size
                           /\ renders[i].elapsed <= TenthSecond
    /\ Cardinality(RendersOfAttempt) < Len(invocations)

\* A thread is blocked when the operation it is at cannot be done now.
Blocked(w) ==
    \/ Op(w) = "get" /\ slots_free = 0
    \/ Op(w) = "lock" /\ state_lock # 0
    \/ Op(w) = "print" /\ print_lock # 0

\* C33: no thread takes the state lock while it holds the printer's lock,
\* no thread asks for a display slot while it holds either lock, and while
\* some thread is at work on a task some thread at work is not blocked.
C33_NoDeadlock ==
    /\ \A w \in Threads : print_lock = w => Op(w) # "lock"
    /\ \A w \in Threads : Op(w) = "get" => (state_lock # w /\ print_lock # w)
    /\ (\E w \in Threads : Op(w) # "none")
          => \E w \in Threads : Op(w) # "none" /\ ~Blocked(w)

C33_Witness ==
    \E v, w \in Threads :
        /\ v # w
        /\ state_lock = w /\ Op(w) = "print" /\ print_lock = v
        /\ queued = 0

\* The steps a task has before it at most, by the place of its worker; the
\* retry loop has max_retries - attempt turns left.
TurnsLeft(w) == IF wk[w].attempt < max_retries THEN max_retries - wk[w].attempt ELSE 0
StepsLeft(w) ==
    CASE wk[w].pc = "idle" -> 0
      [] wk[w].pc = "periodic_write" -> 1
      [] wk[w].pc = "periodic" -> 2
      [] wk[w].pc = "cleanup" -> 3
      [] wk[w].pc = "upload" -> 4 + TurnsLeft(w)
      [] wk[w].pc = "temp_fail" -> 1
      [] wk[w].pc = "collision_fail" -> 1
      [] wk[w].pc = "copy" -> 5 + max_retries
      [] wk[w].pc = "link" -> 6 + max_retries
      [] wk[w].pc = "collision" -> 7 + max_retries
      [] wk[w].pc = "prepare" -> 8 + max_retries
      [] wk[w].pc = "check_cloud" -> 9 + max_retries
      [] wk[w].pc = "check_local" -> 10 + max_retries
      [] wk[w].pc = "count" -> 11 + max_retries
      [] OTHER -> 0
StepsOfTask == 12 + max_retries

RECURSIVE StepsOfWorkers(_)
StepsOfWorkers(n) == IF n = 0 THEN 0 ELSE StepsLeft(n) + StepsOfWorkers(n - 1)

\* An upper bound of the steps the run has before it.
RunSteps ==
    CASE main_pc = "start" -> 3 + Cardinality(DOMAIN fs) * StepsOfTask
      [] main_pc = "process" ->
            2 + (total_files + 1 - next_task) * StepsOfTask + StepsOfWorkers(num_threads)
      [] main_pc = "final_write" -> 1
      [] OTHER -> 0

C34_Step ==
    /\ RunSteps' < RunSteps
    /\ RunSteps' >= 0
    /\ \A t \in Tasks : Terminal(t) => (t \in DOMAIN outcome' /\ outcome'[t] = outcome[t])
    /\ \A t \in DOMAIN calls' : max_retries = 0 => calls'[t] = 0
    /\ main_pc' = "summary" =>
          /\ \A t \in DOMAIN outcome' : outcome'[t].kind # "Pending"
          /\ max_retries = 0 => \A t \in DOMAIN outcome' : outcome'[t].kind # "Uploaded"

\* C34: the run ends.  Every step brings the run nearer to its summary by a
\* bound that cannot fall below zero, and before the summary a step can
\* always be taken; a terminal outcome is never replaced, at the summary
\* every task has one, and with max_retries = 0 no upload call is made and
\* no task ends Uploaded.
C34_RunTerminates ==
    /\ [](main_pc \in {"start", "summary"} \/ ENABLED Processing)
    /\ [][C34_Step]_vars

C34_Witness ==
    /\ main_pc = "summary"
    /\ max_retries = 0 /\ num_threads = 2
    /\ \E t, u \in Tasks : Kind(t) = "Failed" /\ Kind(u) = "SkippedCloud"

\* The number a discovered file was created as, which is its content at
\* the start of the run.
CreatedAs(p) == CHOOSE i \in DOMAIN Universe : Universe[i].path = p

\* C35: while the tasks are processed and after, every discovered source
\* file is on disk under its path and holds the content it had when the
\* run started.
C35_SourcesUntouched ==
    main_pc # "start" =>
        \A t \in Tasks :
            /\ file_tasks[t] \in DOMAIN fs
            /\ data[fs[file_tasks[t]]] = CreatedAs(file_tasks[t])

\* No task removes a discovered source file, and the path a task
\* materializes is never the path of one.
C35_SourcesKept ==
    main_pc # "start" =>
        /\ \A t \in Tasks : file_tasks[t] \in DOMAIN fs /\ fs[file_tasks[t]] = CreatedAs(file_tasks[t])
        /\ \A w \in Workers : \A t \in Tasks : wk[w].temp_path # file_tasks[t]

\* The worker is between the making of its upload file and the end of its
\* last upload attempt.
UploadingFromTemp(w) ==
    /\ wk[w].pc = "upload" /\ wk[w].attempt < max_retries
    /\ wk[w].temp_path # NoPath

\* C36: while a task uploads from the file it has made, the file is on disk
\* at the upload path and holds the content of the task's source file.
C36_UploadFileStays ==
    \A w \in Workers :
        UploadingFromTemp(w) =>
            /\ wk[w].upload_path \in DOMAIN fs
            /\ data[fs[wk[w].upload_path]] = CreatedAs(file_path(w))

\* The same for the presence of the file alone.
C36_UploadFilePresent ==
    \A w \in Workers : UploadingFromTemp(w) => wk[w].upload_path \in DOMAIN fs

\* With one thread the file stays.
C36_OneThreadStays ==
    num_threads = 1 => C36_UploadFileStays

UploadedBefore(t) ==
    file_tasks[t] \in DOMAIN prev /\ prev[file_tasks[t]].kind = "Uploaded"

\* C37: in the second run of a task with local_check on and the same
\* history file, no upload call is made for a file that ended Uploaded in
\* the first run, and the name its dedup check looks up is the name the
\* first run recorded for it.
C37_UploadedNeverAgain ==
    (run = 2 /\ main_pc # "start") =>
        \A t \in Tasks :
            UploadedBefore(t) =>
                /\ calls[t] = 0
                /\ clean_filename(file_tasks[t].name) = prev[file_tasks[t]].name

\* A file uploaded under its sanitized name is not uploaded again.
C37_SanitizedNeverAgain ==
    (run = 2 /\ main_pc # "start") =>
        \A t \in Tasks :
            (UploadedBefore(t) /\ clean_filename(file_tasks[t].name) = prev[file_tasks[t]].name)
                => calls[t] = 0

\* C38: with local_check off no step changes the history file, nothing of
\* its content comes into memory (album_history stays empty and no save
\* holds a document read from it), and no task is classified SkipLocal.
C38_Step ==
    ~local_check =>
        /\ history_file' = history_file
        /\ album_history' = {}
        /\ current_full' = EmptyDoc
        /\ \A w \in Workers : wk'[w].pc # "periodic_write"
        /\ main_pc' # "final_write"
        /\ \A t \in DOMAIN outcome' : outcome'[t].kind # "SkippedLocal"

C38_HistoryPlaysNoPart == [][C38_Step]_vars

\* A long run with local_check off has passed the periodic save and ended,
\* with a file uploaded whose name the history file lists.
C38_Witness ==
    /\ ~local_check /\ main_pc = "summary"
    /\ periodic_saves > 0
    /\ history_file.state = "ok" /\ NameA \in get_album(history_file.doc)
    /\ \E t \in Tasks : Kind(t) = "Uploaded" /\ outcome[t].name = NameA

PeriodicSaving == \E w \in Workers : wk[w].pc = "periodic_write"
FinalSaving == main_pc = "final_write"

\* C39: from the moment a save has read the file to its write, no name is
\* added to album_history, and the album's entry it writes is album_history
\* as it is then; the final save starts when every task has been handed out
\* and every worker has finished.
C39_Step ==
    /\ (PeriodicSaving \/ FinalSaving) => album_history' = album_history
    /\ history_file' # history_file =>
          /\ PeriodicSaving \/ FinalSaving
          /\ history_file'.state = "ok"
          /\ get_album(history_file'.doc) = album_history'
    /\ FinalSaving' =>
          /\ next_task' > total_files
          /\ \A w \in Workers : wk'[w] = Idle
          /\ \A t \in DOMAIN outcome' : outcome'[t].kind # "Pending"

C39_SaveWritesSnapshot == [][C39_Step]_vars

\* A periodic save is between its read and its write while another worker
\* has an upload to record.
C39_Witness ==
    \E v, w \in Workers :
        /\ wk[w].pc = "periodic_write"
        /\ wk[v].pc = "upload" /\ wk[v].attempt < max_retries
        /\ wk[v].cleaned_name \notin album_history

=============================================================================
